---- MODULE Spec2Model ----
(***************************************************************************)
(* Model of src/architecture/network.js of carrot: the Network genome      *)
(* (construction, connect / disconnect / gate / ungate / remove, the 13    *)
(* mutation operators) and the Neat population manager (evolve).           *)
(*                                                                         *)
(* Nodes are objects: a node is a record with its identity `id` and its    *)
(* `type`.  A connection object is identified by its (from, to) pair of    *)
(* node identities (Node.connect refuses a second connection for a pair,   *)
(* and a node owns one self-connection object); the arrays `connections`   *)
(* and `selfconns` hold the connection records with their `gater` field,   *)
(* and `gates` holds references <<from, to>> to connection objects.        *)
(* The per-node lists node.connections.in / out / gated / self are kept by *)
(* node.js in step with the network's arrays; they are derived here.       *)
(* A network value carries a field `err`: the exception an operation has   *)
(* thrown ("none" when it returned normally).  Every operation is the      *)
(* identity on a value whose err is set, which is how a throw skips the    *)
(* rest of the caller's body and leaves what was already mutated.          *)
(***************************************************************************)
EXTENDS Integers, Sequences, FiniteSets, TLC

\* ------------------------------------------------------------------ bounds
MaxSize == 2      \* largest input_size and output_size of a constructed network
MaxNodes == 4     \* the model stops adding nodes at this many
MaxConns == 3     \* ... ordinary connections (and maxConns of the Neat)
MaxSelf == 1      \* ... nodes with a self-connection
MaxGates == 1     \* ... gated connections (and maxGates of the Neat)
MaxEditNodes == 3 \* nodes of a network under the direct structural edits
                  \* (and maxNodes of the Neat)
MaxPop == 2       \* largest popsize, elitism and provenance of a Neat
MaxScore == 1     \* the fitness function returns a score in 0..MaxScore
MaxCalls == 2     \* evolve() is called at most this many times
MaxSelectPop == 3 \* largest popsize of a Neat whose getParent() is called
MaxEdits == 2     \* mutate() calls on each of the two parents of a cross_over
MaxThreads == 3   \* most threads of a multi-threaded fitness function
MaxQueue == 3     \* longest population it is called with
MaxSamples == 2   \* most samples of a dataset
MaxWideConns == 5   \* ordinary connections of a network under the wide mutations
MaxIterations == 2   \* largest options.iterations given to Network.evolve
MaxError == 6        \* largest error of a fittest genome, in hundredths
MaxGenerations == 4  \* most generations one Network.evolve call is followed for

\* ------------------------------------------------------------------ values
NoNode == 0       \* null (a connection's gater), and index -1 of indexOf

MkNode(id, type) == [id |-> id, type |-> type]

MkConn(from, to) == [from |-> from, to |-> to, gater |-> NoNode]

Ref(c) == <<c.from, c.to>>

\* ------------------------------------------------------------------ sequences
RemoveAt(s, i) == [k \in 1..(Len(s) - 1) |-> IF k < i THEN s[k] ELSE s[k + 1]]

InsertAt(s, i, x) ==
  [k \in 1..(Len(s) + 1) |-> IF k < i THEN s[k] ELSE IF k = i THEN x ELSE s[k - 1]]

Reverse(s) == [k \in 1..Len(s) |-> s[Len(s) + 1 - k]]

\* first index k with s[k] = x, 0 when there is none (Array.indexOf, 1-based)
FirstIndex(s, x) ==
  IF \E k \in 1..Len(s) : s[k] = x
  THEN CHOOSE k \in 1..Len(s) : s[k] = x /\ \A j \in 1..(k - 1) : s[j] # x
  ELSE 0

\* ------------------------------------------------------------------ node lists
NodeIds(n) == {n.nodes[k].id : k \in 1..Len(n.nodes)}

\* this.nodes.indexOf(node), 1-based; 0 stands for -1
IndexOf(n, id) ==
  IF \E k \in 1..Len(n.nodes) : n.nodes[k].id = id
  THEN CHOOSE k \in 1..Len(n.nodes) : n.nodes[k].id = id
  ELSE 0

TypeOf(n, id) == n.nodes[IndexOf(n, id)].type

\* node.connections.in, in creation order
ConnsIn(n, id) == SelectSeq(n.connections, LAMBDA c : c.to = id)

\* node.connections.out, in creation order
ConnsOut(n, id) == SelectSeq(n.connections, LAMBDA c : c.from = id)

\* node.connections.self.weight !== 0
HasSelf(n, id) == \E k \in 1..Len(n.selfconns) : Ref(n.selfconns[k]) = <<id, id>>

\* the connection object a reference denotes: its record in the arrays
AllConns(n) == n.connections \o n.selfconns

Lookup(n, ref) ==
  LET all == AllConns(n)
  IN  all[CHOOSE k \in 1..Len(all) : Ref(all[k]) = ref]

Live(n, ref) == \E k \in 1..Len(AllConns(n)) : Ref(AllConns(n)[k]) = ref

GaterOf(n, ref) == IF Live(n, ref) THEN Lookup(n, ref).gater ELSE NoNode

\* node.connections.gated, in gating order
Gated(n, id) == SelectSeq(n.gates, LAMBDA r : GaterOf(n, r) = id)

IsProjectingTo(n, from, to) ==
  IF from = to THEN HasSelf(n, from)
  ELSE \E k \in 1..Len(n.connections) : Ref(n.connections[k]) = <<from, to>>

\* connection.gater = g on the connection object ref denotes
SetGater(n, ref, g) ==
  [n EXCEPT
     !.connections = [k \in 1..Len(@) |-> IF Ref(@[k]) = ref THEN [@[k] EXCEPT !.gater = g] ELSE @[k]],
     !.selfconns = [k \in 1..Len(@) |-> IF Ref(@[k]) = ref THEN [@[k] EXCEPT !.gater = g] ELSE @[k]]]

Throw(n, e) == [n EXCEPT !.err = e]

\* ------------------------------------------------------------------ Network
\* a faulty constructor: each input node is connected to the first output
\* node alone
NetworkFirstOutput(input_size, output_size) ==
  [input_size |-> input_size,
   output_size |-> output_size,
   nodes |-> [k \in 1..(input_size + output_size) |->
                MkNode(k, IF k <= input_size THEN "input" ELSE "output")],
   connections |-> [k \in 1..input_size |-> MkConn(k, input_size + 1)],
   gates |-> <<>>,
   selfconns |-> <<>>,
   err |-> "none"]

Network(input_size, output_size) ==
  [input_size |-> input_size,
   output_size |-> output_size,
   nodes |-> [k \in 1..(input_size + output_size) |->
                MkNode(k, IF k <= input_size THEN "input" ELSE "output")],
   connections |-> [k \in 1..(input_size * output_size) |->
                      MkConn(((k - 1) \div output_size) + 1,
                             input_size + ((k - 1) % output_size) + 1)],
   gates |-> <<>>,
   selfconns |-> <<>>,
   err |-> "none"]

\* a faulty connect: a self-connection is pushed onto `connections`
ConnectOrdinary(n, from, to) ==
  IF n.err # "none" THEN n
  ELSE IF from # to /\ IsProjectingTo(n, from, to) THEN Throw(n, "AlreadyProjecting")
  ELSE [n EXCEPT !.connections = Append(@, MkConn(from, to))]

Connect(n, from, to) ==
  IF n.err # "none" THEN n
  ELSE IF from # to /\ IsProjectingTo(n, from, to) THEN Throw(n, "AlreadyProjecting")
  ELSE IF from # to THEN [n EXCEPT !.connections = Append(@, MkConn(from, to))]
  ELSE [n EXCEPT !.selfconns = Append(@, MkConn(from, to))]

\* a faulty ungate: one that lets a connection that is not gated pass
UngateQuietly(n, ref) ==
  IF n.err # "none" THEN n
  ELSE LET index == FirstIndex(n.gates, ref)
       IN  IF index = 0 THEN n
           ELSE LET n1 == [n EXCEPT !.gates = RemoveAt(@, index)]
                IN  IF GaterOf(n1, ref) = NoNode THEN Throw(n1, "TypeError")
                    ELSE SetGater(n1, ref, NoNode)

Ungate(n, ref) ==
  IF n.err # "none" THEN n
  ELSE LET index == FirstIndex(n.gates, ref)
       IN  IF index = 0 THEN Throw(n, "NotGated")
           ELSE LET n1 == [n EXCEPT !.gates = RemoveAt(@, index)]
                IN  IF GaterOf(n1, ref) = NoNode THEN Throw(n1, "TypeError")
                    ELSE SetGater(n1, ref, NoNode)

\* a faulty gate: one that does not return when the connection is gated
GateAgain(n, node, ref) ==
  IF n.err # "none" THEN n
  ELSE IF IndexOf(n, node) = 0 THEN Throw(n, "NotPartOfNetwork")
  ELSE [SetGater(n, ref, node) EXCEPT !.gates = Append(@, ref)]

Gate(n, node, ref) ==
  IF n.err # "none" THEN n
  ELSE IF IndexOf(n, node) = 0 THEN Throw(n, "NotPartOfNetwork")
  ELSE IF GaterOf(n, ref) # NoNode THEN n
  ELSE [SetGater(n, ref, node) EXCEPT !.gates = Append(@, ref)]

Disconnect(n, from, to) ==
  IF n.err # "none" THEN n
  ELSE LET list == IF from = to THEN n.selfconns ELSE n.connections
           hit == {k \in 1..Len(list) : Ref(list[k]) = <<from, to>>}
       IN  IF hit = {} THEN n
           ELSE LET i == CHOOSE k \in hit : \A j \in hit : k <= j
                    n1 == IF list[i].gater # NoNode THEN Ungate(n, <<from, to>>) ELSE n
                IN  IF n1.err # "none" THEN n1
                    ELSE IF from = to THEN [n1 EXCEPT !.selfconns = RemoveAt(@, i)]
                    ELSE [n1 EXCEPT !.connections = RemoveAt(@, i)]

\* a faulty loop: a forward walk over the list disconnect is splicing, which
\* skips the connection after each one it disconnects
RECURSIVE DisconnectSkipping(_, _)
DisconnectSkipping(n, refs) ==
  IF refs = <<>> THEN n
  ELSE DisconnectSkipping(Disconnect(n, Head(refs)[1], Head(refs)[2]),
                          IF Len(refs) > 1 THEN Tail(Tail(refs)) ELSE <<>>)

\* this.disconnect(c.from, c.to) for each c of refs, in order
RECURSIVE DisconnectAll(_, _)
DisconnectAll(n, refs) ==
  IF refs = <<>> THEN n
  ELSE DisconnectAll(Disconnect(n, Head(refs)[1], Head(refs)[2]), Tail(refs))

\* this.ungate(c) for each c of refs, in order
RECURSIVE UngateAll(_, _)
UngateAll(n, refs) ==
  IF refs = <<>> THEN n ELSE UngateAll(Ungate(n, Head(refs)), Tail(refs))

\* a faulty reconnection: a node that is both an input and an output of the
\* removed node is not given its self-connection
RECURSIVE ReconnectApart(_, _, _, _)
ReconnectApart(st, inputs, outputs, rest) ==
  IF inputs = <<>> \/ st.net.err # "none" THEN st
  ELSE IF rest = <<>> THEN ReconnectApart(st, Tail(inputs), outputs, outputs)
  ELSE LET input == Head(inputs)
           output == Head(rest)
           st1 == IF input = output \/ IsProjectingTo(st.net, input, output) THEN st
                  ELSE [net |-> Connect(st.net, input, output),
                        made |-> Append(st.made, <<input, output>>)]
       IN  ReconnectApart(st1, inputs, outputs, Tail(rest))

\* remove, lines 371-380: connect every input to every output it does not
\* project to yet; st = [net, made], made the connections formed so far
RECURSIVE Reconnect(_, _, _, _)
Reconnect(st, inputs, outputs, rest) ==
  IF inputs = <<>> \/ st.net.err # "none" THEN st
  ELSE IF rest = <<>> THEN Reconnect(st, Tail(inputs), outputs, outputs)
  ELSE LET input == Head(inputs)
           output == Head(rest)
           st1 == IF IsProjectingTo(st.net, input, output) THEN st
                  ELSE [net |-> Connect(st.net, input, output),
                        made |-> Append(st.made, <<input, output>>)]
       IN  Reconnect(st1, inputs, outputs, Tail(rest))

\* remove, lines 382-390: each displaced gater gates one of the new
\* connections, picked at random, until either list is empty
RECURSIVE Regate(_, _, _)
Regate(n, gaters, made) ==
  IF gaters = <<>> \/ made = <<>> \/ n.err # "none" THEN {n}
  ELSE UNION {Regate(Gate(n, Head(gaters), made[k]), Tail(gaters), RemoveAt(made, k)) :
                k \in 1..Len(made)}

\* the gaters remove() records for the connections cs (in visiting order)
DisplacedGaters(cs, node, keep_gates) ==
  LET kept == SelectSeq(cs, LAMBDA c : keep_gates /\ c.gater # NoNode /\ c.gater # node)
  IN  [k \in 1..Len(kept) |-> kept[k].gater]

RefsOf(cs) == [k \in 1..Len(cs) |-> Ref(cs[k])]

\* the networks remove(node) can leave, one per outcome of its random draws
Remove(n, node, keep_gates) ==
  IF n.err # "none" THEN {n}
  ELSE IF IndexOf(n, node) = 0 THEN {Throw(n, "NodeNotInNetwork")}
  ELSE
    LET index == IndexOf(n, node)
        n0 == Disconnect(n, node, node)
        ins == Reverse(ConnsIn(n0, node))
        n1 == DisconnectAll(n0, RefsOf(ins))
        outs == Reverse(ConnsOut(n1, node))
        n2 == DisconnectAll(n1, RefsOf(outs))
        gates == DisplacedGaters(ins, node, keep_gates) \o DisplacedGaters(outs, node, keep_gates)
        inputs == [k \in 1..Len(ins) |-> ins[k].from]
        outputs == [k \in 1..Len(outs) |-> outs[k].to]
        st == Reconnect([net |-> n2, made |-> <<>>], inputs, outputs, outputs)
        Finish(m) ==
          LET m1 == UngateAll(m, Reverse(Gated(m, node)))
              m2 == Disconnect(m1, node, node)
          IN  IF m2.err # "none" THEN m2 ELSE [m2 EXCEPT !.nodes = RemoveAt(@, index)]
    IN  {Finish(m) : m \in Regate(st.net, gates, st.made)}

\* ------------------------------------------------------------------ mutation
Methods ==
  {"ADD_NODE", "SUB_NODE", "ADD_CONN", "SUB_CONN", "MOD_WEIGHT", "MOD_BIAS",
   "MOD_ACTIVATION", "ADD_SELF_CONN", "SUB_SELF_CONN", "ADD_GATE", "SUB_GATE",
   "ADD_BACK_CONN", "SUB_BACK_CONN", "SWAP_NODES"}

Min(a, b) == IF a < b THEN a ELSE b

\* a faulty maximum: the first number
MaxFirst(a, b) == a

Max(a, b) == IF a < b THEN b ELSE a

HiddenNodes(n) ==
  {n.nodes[k].id : k \in {j \in 1..Len(n.nodes) : n.nodes[j].type \notin {"input", "output"}}}

\* the filter of MOD_ACTIVATION and SWAP_NODES
Eligible(n, mutateOutput) ==
  {n.nodes[k].id : k \in {j \in 1..Len(n.nodes) :
      /\ n.nodes[j].type # "input"
      /\ (mutateOutput \/ n.nodes[j].type # "output")}}

\* a faulty filter: every non-input node is a candidate
SelfCandidatesAll(n) ==
  {n.nodes[i].id : i \in (n.input_size + 1)..Len(n.nodes)}

\* possible(ADD_SELF_CONN): the non-input nodes without a self-connection
SelfCandidates(n) ==
  {n.nodes[i].id : i \in {j \in (n.input_size + 1)..Len(n.nodes) : ~HasSelf(n, n.nodes[j].id)}}

\* possible(method): [ok |-> the result is truthy, candidates |-> its elements]
Possible(n, method, mutateOutput) ==
  LET len == Len(n.nodes)
      Some(c) == [ok |-> c # {}, candidates |-> c]
      Flag(b) == [ok |-> b, candidates |-> {}]
  IN CASE method = "SUB_NODE" -> Some(HiddenNodes(n))
       [] method = "ADD_CONN" ->
            Some({<<n.nodes[i].id, n.nodes[j].id>> :
                    <<i, j>> \in {p \in (1..len) \X (1..len) :
                       /\ p[1] <= len - n.output_size
                       /\ p[2] >= Max(p[1] + 1, n.input_size + 1)
                       /\ ~IsProjectingTo(n, n.nodes[p[1]].id, n.nodes[p[2]].id)}})
       [] method = "SUB_CONN" ->
            Some({Ref(n.connections[k]) : k \in {j \in 1..Len(n.connections) :
                    /\ Len(ConnsOut(n, n.connections[j].from)) > 1
                    /\ Len(ConnsIn(n, n.connections[j].to)) > 1
                    /\ IndexOf(n, n.connections[j].to) > IndexOf(n, n.connections[j].from)}})
       [] method = "MOD_ACTIVATION" ->
            Flag(mutateOutput \/ len > n.input_size + n.output_size)
       [] method = "ADD_SELF_CONN" -> Some(SelfCandidates(n))
       [] method = "SUB_SELF_CONN" -> Flag(Len(n.selfconns) > 0)
       [] method = "ADD_GATE" ->
            Some({Ref(AllConns(n)[k]) : k \in {j \in 1..Len(AllConns(n)) :
                    AllConns(n)[j].gater = NoNode}})
       [] method = "SUB_GATE" -> Flag(Len(n.gates) > 0)
       [] method = "ADD_BACK_CONN" ->
            Some({<<n.nodes[i].id, n.nodes[j].id>> :
                    <<i, j>> \in {p \in (1..len) \X (1..len) :
                       /\ p[1] >= n.input_size + 1
                       /\ p[2] >= n.input_size + 1
                       /\ p[2] < p[1]
                       /\ ~IsProjectingTo(n, n.nodes[p[1]].id, n.nodes[p[2]].id)}})
       [] method = "SUB_BACK_CONN" ->
            Some({Ref(n.connections[k]) : k \in {j \in 1..Len(n.connections) :
                    /\ Len(ConnsOut(n, n.connections[j].from)) > 1
                    /\ Len(ConnsIn(n, n.connections[j].to)) > 1
                    /\ IndexOf(n, n.connections[j].from) > IndexOf(n, n.connections[j].to)}})
       [] method = "SWAP_NODES" ->
            IF (len - 1) - n.input_size - (IF mutateOutput THEN 0 ELSE n.output_size) < 2
            THEN Flag(FALSE)
            ELSE [ok |-> Cardinality(Eligible(n, mutateOutput)) >= 2,
                  candidates |-> Eligible(n, mutateOutput)]
       [] OTHER -> Flag(FALSE)

\* new Node(): an object that is none of the network's nodes
NewNodeId(n) ==
  CHOOSE id \in 1..(Len(n.nodes) + 1) :
    /\ id \notin NodeIds(n)
    /\ \A j \in 1..(Len(n.nodes) + 1) : j \notin NodeIds(n) => id <= j

\* the connection object c once this.disconnect(c.from, c.to) has returned:
\* disconnect ungates a gated connection, and ungate clears its gater
Disconnected(c) == IF c.gater # NoNode THEN [c EXCEPT !.gater = NoNode] ELSE c

\* a faulty bound: the new node always goes right before connection.to
MinBoundUnclamped(toIndex, len, output_size) == toIndex

\* line 519: the new node goes before connection.to, and never behind the
\* first output node
MinBound(toIndex, len, output_size) == Min(toIndex, len - output_size)

\* mutate(ADD_NODE) on connections[k]; first = the draw of line 528
AddNode(n, k, first) ==
  LET connection == n.connections[k]
      n1 == Disconnect(n, connection.from, connection.to)
      toIndex == IndexOf(n1, connection.to) - 1
      node == NewNodeId(n1)
      minBound == MinBound(toIndex, Len(n1.nodes), n1.output_size)
      n2 == IF n1.err # "none" THEN n1
            ELSE [n1 EXCEPT !.nodes = InsertAt(@, minBound + 1, MkNode(node, "hidden"))]
      n3 == Connect(n2, connection.from, node)
      n4 == Connect(n3, node, connection.to)
      gater == Disconnected(connection).gater
  IN  IF gater # NoNode
      THEN Gate(n4, gater, IF first THEN <<connection.from, node>> ELSE <<node, connection.to>>)
      ELSE n4

\* the networks mutate(method) can leave, one per outcome of its random draws
Mutate(n, method, mutateOutput, keep_gates) ==
  LET possible == Possible(n, method, mutateOutput)
  IN CASE method = "ADD_NODE" ->
            IF Len(n.connections) = 0 THEN {Throw(n, "TypeError")}
            ELSE {AddNode(n, k, first) : k \in 1..Len(n.connections), first \in BOOLEAN}
       [] method = "SUB_NODE" ->
            IF possible.ok
            THEN UNION {Remove(n, node, keep_gates) : node \in possible.candidates}
            ELSE {n}
       [] method \in {"ADD_CONN", "ADD_BACK_CONN"} ->
            IF possible.ok
            THEN {Connect(n, pair[1], pair[2]) : pair \in possible.candidates}
            ELSE {n}
       [] method \in {"SUB_CONN", "SUB_BACK_CONN"} ->
            IF possible.ok
            THEN {Disconnect(n, c[1], c[2]) : c \in possible.candidates}
            ELSE {n}
       [] method = "MOD_WEIGHT" ->
            IF Len(AllConns(n)) = 0 THEN {Throw(n, "TypeError")} ELSE {n}
       [] method = "MOD_BIAS" ->
            IF Len(n.nodes) - n.input_size <= 0 THEN {Throw(n, "TypeError")} ELSE {n}
       [] method = "MOD_ACTIVATION" ->
            IF possible.ok
            THEN IF Eligible(n, mutateOutput) = {} THEN {Throw(n, "TypeError")} ELSE {n}
            ELSE {n}
       [] method = "ADD_SELF_CONN" ->
            IF possible.ok
            THEN {Connect(n, node, node) : node \in possible.candidates}
            ELSE {n}
       [] method = "SUB_SELF_CONN" ->
            IF possible.ok
            THEN {Disconnect(n, n.selfconns[k].from, n.selfconns[k].to) : k \in 1..Len(n.selfconns)}
            ELSE {n}
       [] method = "ADD_GATE" ->
            IF possible.ok
            THEN {Gate(n, n.nodes[i].id, conn) :
                    i \in (n.input_size + 1)..Len(n.nodes), conn \in possible.candidates}
            ELSE {n}
       [] method = "SUB_GATE" ->
            IF possible.ok
            THEN {Ungate(n, n.gates[k]) : k \in 1..Len(n.gates)}
            ELSE {n}
       [] method = "SWAP_NODES" -> {n}
       [] OTHER -> {n}

\* ------------------------------------------------------------------ JSON, cross_over
\* indices here are the 1-based positions in `nodes`; 0 stands for "none"
Indices(n) == [k \in 1..Len(n.nodes) |-> k]

\* the gene of a connection: its endpoints and gater by index
Gene(n, c) ==
  [from |-> IndexOf(n, c.from), to |-> IndexOf(n, c.to),
   gater |-> IF c.gater = NoNode THEN NoNode ELSE IndexOf(n, c.gater)]

\* a faulty to_JSON: the self-connections are written without their gater
to_JSONSelfUngated(n) ==
  LET selfIdx == SelectSeq(Indices(n), LAMBDA k : HasSelf(n, n.nodes[k].id))
      selfs == [j \in 1..Len(selfIdx) |->
                  [from |-> selfIdx[j], to |-> selfIdx[j], gater |-> NoNode]]
      ords == [j \in 1..Len(n.connections) |-> Gene(n, n.connections[j])]
  IN  [input |-> n.input_size,
       output |-> n.output_size,
       nodes |-> [k \in 1..Len(n.nodes) |-> n.nodes[k].type],
       connections |-> selfs \o ords]

to_JSON(n) ==
  LET selfIdx == SelectSeq(Indices(n), LAMBDA k : HasSelf(n, n.nodes[k].id))
      selfs == [j \in 1..Len(selfIdx) |->
                  Gene(n, Lookup(n, <<n.nodes[selfIdx[j]].id, n.nodes[selfIdx[j]].id>>))]
      ords == [j \in 1..Len(n.connections) |-> Gene(n, n.connections[j])]
  IN  [input |-> n.input_size,
       output |-> n.output_size,
       nodes |-> [k \in 1..Len(n.nodes) |-> n.nodes[k].type],
       connections |-> selfs \o ords]

\* a network of `types` nodes and no connection, as from_JSON and cross_over
\* make it from new Network(input, output)
Blank(input, output, types) ==
  [input_size |-> input,
   output_size |-> output,
   nodes |-> [k \in 1..Len(types) |-> MkNode(k, types[k])],
   connections |-> <<>>,
   gates |-> <<>>,
   selfconns |-> <<>>,
   err |-> "none"]

\* a faulty loop: no index is compared with size
RECURSIVE AddGenesUnchecked(_, _, _)
AddGenesUnchecked(n, genes, size) ==
  IF genes = <<>> \/ n.err # "none" THEN n
  ELSE LET g == Head(genes)
           c == Connect(n, g.from, g.to)
       IN  AddGenesUnchecked(IF g.gater # NoNode THEN SetGater(c, <<g.from, g.to>>, g.gater)
                             ELSE c,
                             Tail(genes), size)

\* connect, and gate when the gene is gated, each gene in order; cross_over
\* skips a gene or a gater whose index is not below size
RECURSIVE AddGenes(_, _, _)
AddGenes(n, genes, size) ==
  IF genes = <<>> \/ n.err # "none" THEN n
  ELSE LET g == Head(genes)
           n1 == IF g.to <= size /\ g.from <= size
                 THEN LET c == Connect(n, g.from, g.to)
                      IN  IF g.gater # NoNode /\ g.gater <= size
                          THEN Gate(c, g.gater, <<g.from, g.to>>)
                          ELSE c
                 ELSE n
       IN  AddGenes(n1, Tail(genes), size)

from_JSON(json) ==
  AddGenes(Blank(json.input, json.output, json.nodes), json.connections, Len(json.nodes))

\* Connection.innovationID on the 0-based indices
InnovationID(a, b) == ((a + b) * (a + b + 1)) \div 2 + b

KeyOf(g) == InnovationID(g.from - 1, g.to - 1)

\* a faulty map: the self-connections are left out
GeneMapOrdinary(n) ==
  LET all == [j \in 1..Len(n.connections) |-> Gene(n, n.connections[j])]
      keys == {KeyOf(all[j]) : j \in 1..Len(all)}
  IN  [k \in keys |-> all[CHOOSE j \in 1..Len(all) : KeyOf(all[j]) = k]]

\* n1conns / n2conns: key -> gene, a later gene of a key replacing an earlier
GeneMap(n) ==
  LET all == [j \in 1..Len(AllConns(n)) |-> Gene(n, AllConns(n)[j])]
      keys == {KeyOf(all[j]) : j \in 1..Len(all)}
  IN  [k \in keys |->
         all[CHOOSE j \in 1..Len(all) :
               KeyOf(all[j]) = k /\ \A i \in 1..Len(all) : KeyOf(all[i]) = k => i <= j]]

\* Object.keys of integer keys: ascending
RECURSIVE Ascending(_)
Ascending(S) ==
  IF S = {} THEN <<>>
  ELSE LET m == CHOOSE x \in S : \A y \in S : x <= y
       IN  <<m>> \o Ascending(S \ {m})

\* the score cross_over compares: network.score || 0
ScoreOr0(score) == IF score = <<>> THEN 0 ELSE score[1]

\* the node of the parents that offspring position i (1-based) copies;
\* pick1 is the draw random >= 0.5.  <<>> stands for undefined
ParentNode(n1, n2, size, i, pick1) ==
  LET At(n, k) == IF k \in 1..Len(n.nodes) THEN <<n.nodes[k].type>> ELSE <<>>
  IN  IF i <= size - n1.output_size
      THEN LET node == IF pick1 THEN At(n1, i) ELSE At(n2, i)
               other == IF pick1 THEN At(n2, i) ELSE At(n1, i)
           IN  IF node = <<>> \/ node = <<"output">> THEN other ELSE node
      ELSE IF pick1 THEN At(n1, Len(n1.nodes) + i - size)
           ELSE At(n2, Len(n2.nodes) + i - size)

\* a faulty test: only the input sizes are compared
SizesDifferInput(network1, network2) == network1.input_size # network2.input_size

\* line 1617: the parents' input sizes or output sizes differ
SizesDiffer(network1, network2) ==
  network1.input_size # network2.input_size \/ network1.output_size # network2.output_size

\* a faulty test: a parent's own genes are always inherited
InheritsOwnAlways(score, other, equal) == TRUE

\* lines 1747 and 1753: the genes only this parent has are inherited when
\* its score is not below the other's, or equal is set
InheritsOwn(score, other, equal) == score >= other \/ equal

\* the offspring cross_over(network1, network2, equal) can return, one per
\* outcome of its random draws; score1, score2 are the parents' scores
cross_over(network1, score1, network2, score2, equal) ==
  IF SizesDiffer(network1, network2)
  THEN {Throw(network1, "SizeMismatch")}
  ELSE
    LET s1 == ScoreOr0(score1)
        s2 == ScoreOr0(score2)
        len1 == Len(network1.nodes)
        len2 == Len(network2.nodes)
        sizes == IF equal \/ s1 = s2 THEN Min(len1, len2)..Max(len1, len2)
                 ELSE IF s1 > s2 THEN {len1} ELSE {len2}
        n1conns == GeneMap(network1)
        n2conns == GeneMap(network2)
        keys1 == Reverse(Ascending(DOMAIN n1conns))
        common == DOMAIN n1conns \cap DOMAIN n2conns
        keys2 == Ascending(DOMAIN n2conns \ common)
        Build(size, picks, genepick) ==
          LET types == [i \in 1..size |-> ParentNode(network1, network2, size, i, picks[i])]
              kept1 == SelectSeq(keys1, LAMBDA k : k \in common \/ InheritsOwn(s1, s2, equal))
              genes1 == [j \in 1..Len(kept1) |->
                           IF kept1[j] \in common /\ ~genepick[kept1[j]]
                           THEN n2conns[kept1[j]] ELSE n1conns[kept1[j]]]
              genes2 == IF InheritsOwn(s2, s1, equal)
                        THEN [j \in 1..Len(keys2) |-> n2conns[keys2[j]]]
                        ELSE <<>>
          IN  IF \E i \in 1..size : types[i] = <<>>
              THEN Throw(Blank(network1.input_size, network1.output_size, <<>>), "TypeError")
              ELSE AddGenes(Blank(network1.input_size, network1.output_size,
                                  [i \in 1..size |-> types[i][1]]),
                            genes1 \o genes2, size)
    IN  {Build(size, picks, genepick) :
           size \in sizes, picks \in [1..Max(len1, len2) -> BOOLEAN],
           genepick \in [common -> BOOLEAN]}

\* ------------------------------------------------------------------ state
VARIABLES
  net,   \* the network under edit; net.err is what the last call threw
  op,    \* the last call on a network by itself: its name, and whether it
         \* had no candidate
  size0, \* the arguments <<input_size, output_size>> the network was made with
  cfg,            \* Neat options: popsize, elitism, provenance, equal
  heap,           \* the Network objects of the Neat: object -> [net, score]
  population,     \* self.population: the objects of its slots
  generation,     \* self.generation
  pc,             \* where evolve() is
  args,           \* evolve()'s callbacks: pickGenome given, what adjustGenome does
  elitists,       \* evolve()'s local elitists
  newPopulation,  \* evolve()'s local newPopulation
  idx,            \* the index i of Neat.mutate's loop (1-based)
  ret,            \* how the last evolve() call ended
  fittest,        \* the genome the last evolve() call returned
  gen0,           \* generation when the last evolve() call started
  elite0,         \* the elitists of that call as they were selected: [obj, net]
  picked,         \* the objects pickGenome picked in the call's last filter
  calls,          \* the number of evolve() calls made
  last,           \* the score of the genome the evolve() call before the last one returned
  res,   \* the last call that returns a value: its name, argument and result
  mate,  \* a second network, for cross_over
  edits, \* the number of mutate() calls made on net and on mate
  fit,   \* a call of the multi-threaded fitness function: its queue and workers
  loop   \* a call of Network.evolve: its options and the generations it ran

netvars == <<net, op, size0, res, mate, edits, fit, loop>>

neatvars == <<cfg, heap, population, generation, pc, args, elitists, newPopulation,
              idx, ret, fittest, gen0, elite0, picked, calls, last>>

vars == <<net, op, size0, cfg, heap, population, generation, pc, args, elitists,
          newPopulation, idx, ret, fittest, gen0, elite0, picked, calls, last, res, mate, edits,
          fit, loop>>

Sizes == (1..MaxSize) \X (1..MaxSize)

\* the model's bounds on a network: its nodes and its ordinary connections,
\* the nodes with a self-connection and the connections that are gated
WithinBounds(n) ==
  /\ Len(n.nodes) <= MaxNodes
  /\ Len(n.connections) <= MaxConns
  /\ Cardinality({Ref(n.selfconns[k]) : k \in 1..Len(n.selfconns)}) <= MaxSelf
  /\ Cardinality({n.gates[k] : k \in 1..Len(n.gates)}) <= MaxGates

\* a call starts with no exception pending
Clear(n) == [n EXCEPT !.err = "none"]

\* the operator has no candidate on n (the table of the mutation operators)
NoCandidate(n, method, mutateOutput) ==
  CASE method = "ADD_NODE" -> Len(n.connections) = 0
    [] method = "MOD_WEIGHT" -> Len(AllConns(n)) = 0
    [] method = "MOD_BIAS" -> Len(n.nodes) <= n.input_size
    [] method = "MOD_ACTIVATION" -> Eligible(n, mutateOutput) = {}
    [] method = "SUB_SELF_CONN" -> Len(n.selfconns) = 0
    [] method = "SUB_GATE" -> Len(n.gates) = 0
    [] method = "SWAP_NODES" -> Cardinality(Eligible(n, mutateOutput)) < 2
    [] OTHER -> Possible(n, method, mutateOutput).candidates = {}

Call(name, nocand) == [name |-> name, nocand |-> nocand]

\* no call has returned a value yet
NoRes == [name |-> "none", arg |-> <<>>, out |-> <<>>]

\* no second network yet
NoMate == [made |-> FALSE, net |-> <<>>]

\* no fitness function was called yet
NoFit == [called |-> FALSE]

\* Network.evolve was not called yet
NoLoop == [called |-> FALSE]

NoCalls ==
  /\ res = NoRes
  /\ mate = NoMate
  /\ edits = <<0, 0>>
  /\ fit = NoFit
  /\ loop = NoLoop

NetStart ==
  /\ \E size \in Sizes :
       /\ net = Network(size[1], size[2])
       /\ size0 = size
  /\ op = Call("new", FALSE)
  /\ NoCalls

\* the settings of the method objects a call can find: method.mutateOutput is
\* read by MOD_ACTIVATION and SWAP_NODES, SUB_NODE.keep_gates by remove
MutateOutputOf(method) ==
  IF method \in {"MOD_ACTIVATION", "SWAP_NODES"} THEN BOOLEAN ELSE {FALSE}

KeepGatesOf(method) == IF method = "SUB_NODE" THEN BOOLEAN ELSE {TRUE}

\* the rest of the state, which the calls on the network leave alone
neatframe == <<size0, cfg, heap, population, generation, pc, args, elitists,
               newPopulation, idx, ret, fittest, gen0, elite0, picked, calls, last,
               res, mate, edits, fit, loop>>

\* mutate(method), on a network that stays within maxNodes nodes
MutateAct(method, maxNodes) ==
  \E mutateOutput \in MutateOutputOf(method), keep_gates \in KeepGatesOf(method) :
    \E r \in Mutate(Clear(net), method, mutateOutput, keep_gates) :
      /\ WithinBounds(r)
      /\ Len(r.nodes) <= maxNodes
      /\ net' = r
      /\ op' = Call(method, NoCandidate(net, method, mutateOutput))
      /\ UNCHANGED neatframe

\* mutate(method) on a network of the template's sizes that may grow to
\* MaxWideConns connections
WithinWide(n) ==
  /\ Len(n.nodes) <= MaxNodes
  /\ Len(n.connections) <= MaxWideConns
  /\ Cardinality({Ref(n.selfconns[k]) : k \in 1..Len(n.selfconns)}) <= MaxSelf
  /\ Cardinality({n.gates[k] : k \in 1..Len(n.gates)}) <= MaxGates

MutateWideAct(method) ==
  \E mutateOutput \in MutateOutputOf(method), keep_gates \in KeepGatesOf(method) :
    \E r \in Mutate(Clear(net), method, mutateOutput, keep_gates) :
      /\ WithinWide(r)
      /\ net' = r
      /\ op' = Call(method, NoCandidate(net, method, mutateOutput))
      /\ UNCHANGED neatframe

\* connect(from, to) for the nodes of the network, to a node that takes input
\* (not an input node) and that has no self-connection yet when to = from
ConnectAct ==
  \E from \in NodeIds(net), to \in NodeIds(net) :
    /\ TypeOf(net, to) # "input"
    /\ from = to => ~HasSelf(net, from)
    /\ WithinBounds(Connect(Clear(net), from, to))
    /\ net' = Connect(Clear(net), from, to)
    /\ op' = Call("connect", FALSE)
    /\ UNCHANGED neatframe

DisconnectAct ==
  \E from \in NodeIds(net), to \in NodeIds(net) :
    /\ net' = Disconnect(Clear(net), from, to)
    /\ op' = Call("disconnect", FALSE)
    /\ UNCHANGED neatframe

GateAct ==
  \E node \in NodeIds(net) \cup {NewNodeId(net)}, k \in 1..Len(AllConns(net)) :
    /\ WithinBounds(Gate(Clear(net), node, Ref(AllConns(net)[k])))
    /\ net' = Gate(Clear(net), node, Ref(AllConns(net)[k]))
    /\ op' = Call("gate", FALSE)
    /\ UNCHANGED neatframe

UngateAct ==
  \E k \in 1..Len(AllConns(net)) :
    /\ net' = Ungate(Clear(net), Ref(AllConns(net)[k]))
    /\ op' = Call("ungate", FALSE)
    /\ UNCHANGED neatframe

RemoveAct ==
  \E node \in HiddenNodes(net) \cup {NewNodeId(net)}, keep_gates \in BOOLEAN :
    \E r \in Remove(Clear(net), node, keep_gates) :
      /\ WithinBounds(r)
      /\ net' = r
      /\ op' = Call("remove", FALSE)
      /\ UNCHANGED neatframe

\* ------------------------------------------------------------------ Neat
Scores == 0..MaxScore

\* the defaults input = 1, output = 1 of the template network
NeatInput == 1

NeatOutput == 1

Template == Network(NeatInput, NeatOutput)

\* options.maxConns set to the number of connections of the template
TightConns == 1

\* methods.mutation.FFW, the default of options.mutation
FFW ==
  {"ADD_NODE", "SUB_NODE", "ADD_CONN", "SUB_CONN", "MOD_WEIGHT", "MOD_BIAS",
   "MOD_ACTIVATION", "SWAP_NODES"}

\* an evolve() call holds at most the old population, the new one and the
\* genomes a filter puts in
Objects == 1..(3 * MaxPop)

\* a slot of the heap no object lives in
FreeObj == [net |-> Blank(0, 0, <<>>), score |-> <<>>]

\* a Network object as from_JSON returns it: no score
Fresh(n) == [net |-> n, score |-> <<>>]

Alloc(h) == CHOOSE o \in Objects : h[o] = FreeObj /\ \A q \in Objects : h[q] = FreeObj => o <= q

Range(s) == {s[k] : k \in 1..Len(s)}

\* what the program can still reach: the objects of these arrays
Collect(h, roots) == [o \in Objects |-> IF o \in roots THEN h[o] ELSE FreeObj]

Score(h, o) == h[o].score

AllScored(h, pop) == \A k \in 1..Len(pop) : Score(h, pop[k]) # <<>>

\* Array(count).fill(object): every slot refers to the one object
Fill(count, o) == [k \in 1..count |-> o]

\* createPool, and the constructor's population
createPool(popsize) ==
  [heap |-> [o \in Objects |-> IF o = 1 THEN Fresh(from_JSON(to_JSON(Template))) ELSE FreeObj],
   population |-> Fill(popsize, 1)]

\* Array.prototype.sort with (a, b) => b.score - a.score: stable, descending
RECURSIVE SortDesc(_, _)
SortDesc(h, pop) ==
  IF pop = <<>> THEN <<>>
  ELSE LET rest == SortDesc(h, Tail(pop))
           x == Head(pop)
           ahead == {k \in 1..Len(rest) : Score(h, rest[k])[1] > Score(h, x)[1]}
           at == Cardinality(ahead) + 1
       IN  InsertAt(rest, IF \A k \in ahead : \A j \in 1..k : j \in ahead THEN at
                          ELSE (CHOOSE k \in 1..(Len(rest) + 1) :
                                  /\ \A j \in 1..(k - 1) : j \in ahead
                                  /\ k \notin ahead), x)

Orderings(pop) ==
  {[k \in 1..Len(pop) |-> pop[f[k]]] :
     f \in {g \in [1..Len(pop) -> 1..Len(pop)] : \A a, b \in 1..Len(pop) : g[a] = g[b] => a = b}}

\* a faulty sort: ascending, the least fit first
sortAscending(h, pop) ==
  IF AllScored(h, pop) THEN {Reverse(SortDesc(h, pop))} ELSE Orderings(pop)

\* self.sort(): b.score - a.score is NaN when a score is undefined, and the
\* order a sort leaves under such a comparator is implementation-defined
sort(h, pop) == IF AllScored(h, pop) THEN {SortDesc(h, pop)} ELSE Orderings(pop)

\* evaluate's loop: genome.score = fitness(dataset, genome) for each slot
RECURSIVE Assign(_, _, _, _)
Assign(h, pop, scores, k) ==
  IF k > Len(pop) THEN h
  ELSE Assign([h EXCEPT ![pop[k]].score = <<scores[k]>>], pop, scores, k + 1)

\* a faulty count: the provenance copies are not taken off
OffspringCountNoProvenance(c) == c.popsize - c.elitism

\* the number of genomes evolve() breeds
OffspringCount(c) == c.popsize - c.elitism - c.provenance

\* a faulty order: the elitists are added before Neat.mutate runs
ReplacedWithElitists(new, elite) == new \o elite

\* self.population = newPopulation: what Neat.mutate then goes over
Replaced(new, elite) == new

\* a faulty selection: no method is held back by a cap
selectMutationMethodUncapped(genome, current, maxConns) == <<current>>

\* selectMutationMethod: null (<<>>) when the method would exceed a cap;
\* maxNodes and maxGates are the model's bounds, maxConns is an option
selectMutationMethod(genome, current, maxConns) ==
  IF current = "ADD_NODE" /\ Len(genome.nodes) >= MaxEditNodes THEN <<>>
  ELSE IF current = "ADD_CONN" /\ Len(genome.connections) >= maxConns THEN <<>>
  ELSE IF current = "ADD_GATE" /\ Len(genome.gates) >= MaxGates THEN <<>>
  ELSE <<current>>

\* new Neat(options) with options.maxConns and options.fitness one of evaluators
NeatStartOf(maxConns, evaluators) ==
  /\ \E popsize \in 1..MaxPop, elitism \in 0..MaxPop, provenance \in 0..MaxPop, equal \in {TRUE},
        fitness \in evaluators :
       /\ cfg = [popsize |-> popsize, elitism |-> elitism, provenance |-> provenance,
                 equal |-> equal, maxConns |-> maxConns, fitness |-> fitness]
       /\ heap = createPool(popsize).heap
       /\ population = createPool(popsize).population
  /\ generation = 0
  /\ pc = "idle"
  /\ args = [pick |-> FALSE, adjust |-> "none"]
  /\ elitists = <<>>
  /\ newPopulation = <<>>
  /\ idx = 0
  /\ ret = "none"
  /\ fittest = FreeObj
  /\ gen0 = 0
  /\ elite0 = <<>>
  /\ picked = {}
  /\ calls = 0
  /\ last = <<>>

\* new Neat(options) with options.maxConns and any fitness function
NeatStartWith(maxConns) == NeatStartOf(maxConns, {"any"})

\* a Neat whose maxConns is the model's bound on the connections
NeatStart == NeatStartWith(MaxConns)

\* evolve() throws: its locals are lost, what it changed stays
Thrown(h, pop) ==
  /\ pc' = "idle"
  /\ ret' = "threw"
  /\ heap' = Collect(h, Range(pop))
  /\ population' = pop
  /\ elitists' = <<>>
  /\ newPopulation' = <<>>
  /\ idx' = 0
  /\ UNCHANGED <<cfg, generation, args, fittest, gen0, elite0, picked, calls, last>>

\* a faulty test: the provenance copies are not counted
ExceedsPopsizeElitism(c) == c.elitism > c.popsize

\* line 2017: elitism + provenance exceeds the population size
ExceedsPopsize(c) == c.elitism + c.provenance > c.popsize

\* evolve(evolveSet, pickGenome, adjustGenome) is called; adjust says what
\* adjustGenome is: "none" not given, "same" returns the genome it got,
\* "fresh" returns a Network it built
EvolveCall ==
  /\ UNCHANGED netvars
  /\ pc = "idle"
  /\ calls < MaxCalls
  /\ calls' = calls + 1
  /\ last' = IF ret = "returned" THEN fittest.score ELSE <<>>
  /\ \E pick \in BOOLEAN, adjust \in {"none", "same", "fresh"} :
       /\ pick = FALSE => adjust = "none"
       /\ args' = [pick |-> pick, adjust |-> adjust]
  /\ gen0' = generation
  /\ elite0' = <<>>
  /\ picked' = {}
  /\ fittest' = FreeObj
  /\ IF ExceedsPopsize(cfg)
     THEN /\ pc' = "idle"
          /\ ret' = "threw"
     ELSE /\ pc' = IF Score(heap, population[Len(population)]) = <<>>
                   THEN "evaluate" ELSE "filter"
          /\ ret' = "running"
  /\ UNCHANGED <<cfg, heap, population, generation, elitists, newPopulation, idx>>

\* fitness functions whose score depends on the genome alone: the more hidden
\* nodes the better, the fewer the better, the more connections the better
Evaluators == {"hidden", "lean", "wired"}

Fitness(fitness, genome) ==
  CASE fitness = "hidden" -> Min(MaxScore, Cardinality(HiddenNodes(genome)))
    [] fitness = "lean" -> MaxScore - Min(MaxScore, Cardinality(HiddenNodes(genome)))
    [] fitness = "wired" -> Min(MaxScore, Max(Len(genome.connections), 1) - 1)

\* the scores self.fitness can return for the slots of pop: any, or those of
\* one of Evaluators
ScoresOf(fitness, h, pop) ==
  IF fitness = "any" THEN [1..Len(pop) -> Scores]
  ELSE {[k \in 1..Len(pop) |-> Fitness(fitness, h[pop[k]].net)]}

\* evaluate(): every slot's genome gets the score the fitness function
\* returns for it, then the population is sorted
Evaluate ==
  /\ UNCHANGED netvars
  /\ pc \in {"evaluate", "evaluate2"}
  /\ \E scores \in ScoresOf(cfg.fitness, heap, population) :
       LET h == Assign(heap, population, scores, 1)
       IN  /\ heap' = h
           /\ population' \in sort(h, population)
  /\ pc' = IF pc = "evaluate" THEN "filter" ELSE "filter2"
  /\ UNCHANGED <<cfg, generation, args, elitists, newPopulation, idx, ret, fittest,
                 gen0, elite0, picked, calls, last>>

\* filterGenome with adjustGenome returning a Network it built: slot k gets
\* a new object when picks[k]
RECURSIVE Adjusted(_, _, _, _)
Adjusted(st, picks, k, roots) ==
  IF k > Len(st.population) THEN st
  ELSE IF ~picks[k] THEN Adjusted(st, picks, k + 1, roots)
  ELSE LET o == CHOOSE q \in Objects :
                  /\ st.heap[q] = FreeObj /\ q \notin roots
                  /\ \A r \in Objects : (st.heap[r] = FreeObj /\ r \notin roots) => q <= r
       IN  Adjusted([heap |-> [st.heap EXCEPT ![o] = Fresh(from_JSON(to_JSON(Template)))],
                     population |-> [st.population EXCEPT ![k] = o]],
                    picks, k + 1, roots)

\* if (pickGenome) self.population = self.filterGenome(...)
Filter ==
  /\ UNCHANGED netvars
  /\ pc \in {"filter", "filter2"}
  /\ IF ~args.pick
     THEN /\ pc' = IF pc = "filter" THEN "sort" ELSE "sort2"
          /\ UNCHANGED <<heap, population, ret, elitists, newPopulation, idx, picked, calls, last,
                         cfg, generation, args, fittest, gen0, elite0>>
     ELSE \E picks \in [1..Len(population) -> BOOLEAN] :
            LET hits == {population[k] : k \in {j \in 1..Len(population) : picks[j]}}
            IN  IF args.adjust = "none" /\ hits # {}
                THEN \* Network.from_JSON(template.to_JSON): the function, not its
                     \* result, so new Network(undefined, undefined) throws
                     Thrown(heap, population)
                ELSE /\ picked' = hits
                     /\ pc' = IF pc = "filter" THEN "sort" ELSE "sort2"
                     /\ IF args.adjust = "fresh"
                        THEN LET st == Adjusted([heap |-> heap, population |-> population],
                                                picks, 1, Range(population) \cup Range(elitists))
                             IN  /\ population' = st.population
                                 /\ heap' = Collect(st.heap, Range(st.population) \cup Range(elitists))
                        ELSE UNCHANGED <<heap, population>>
                     /\ UNCHANGED <<cfg, generation, args, elitists, newPopulation, idx,
                                    ret, fittest, gen0, elite0, calls, last>>

\* lines 2026-2033: sort, take the elitists, make the provenance copies
Select ==
  /\ UNCHANGED netvars
  /\ pc = "sort"
  /\ \E sorted \in sort(heap, population) :
       LET copy == Alloc(heap)
           h == IF cfg.provenance > 0
                THEN [heap EXCEPT ![copy] = Fresh(from_JSON(to_JSON(Template)))]
                ELSE heap
       IN  /\ population' = sorted
           /\ elitists' = [k \in 1..cfg.elitism |-> sorted[k]]
           /\ elite0' = [k \in 1..cfg.elitism |-> [obj |-> sorted[k], net |-> heap[sorted[k]].net]]
           /\ newPopulation' = Fill(cfg.provenance, copy)
           /\ heap' = h
  /\ pc' = "breed"
  /\ UNCHANGED <<cfg, generation, args, idx, ret, fittest, gen0, picked, calls, last>>

\* getParent with the POWER selection: the population as it leaves it, and
\* any index floor(random ^ power * length) can be
getParent(h, pop) ==
  LET pops == IF Score(h, pop[1]) # <<>> /\ Score(h, pop[2]) # <<>>
                 /\ Score(h, pop[1])[1] < Score(h, pop[2])[1]
              THEN sort(h, pop) ELSE {pop}
  IN  {[population |-> q, parent |-> q[k]] : q \in pops, k \in 1..Len(pop)}

\* lines 2036-2040: one getOffspring() per round, then the new population
\* replaces the old one
Breed ==
  /\ UNCHANGED netvars
  /\ pc = "breed"
  /\ IF Len(newPopulation) - cfg.provenance < OffspringCount(cfg)
     THEN IF Len(population) < 2
          THEN \* getParent reads self.population[1].score
               Thrown(heap, population)
          ELSE \E g1 \in getParent(heap, population) :
                 \E g2 \in getParent(heap, g1.population) :
                   \E child \in cross_over(heap[g1.parent].net, Score(heap, g1.parent),
                                           heap[g2.parent].net, Score(heap, g2.parent), cfg.equal) :
                     IF child.err # "none" THEN Thrown(heap, g2.population)
                     ELSE /\ population' = g2.population
                          /\ heap' = [heap EXCEPT ![Alloc(heap)] = Fresh(child)]
                          /\ newPopulation' = Append(newPopulation, Alloc(heap))
                          /\ UNCHANGED <<pc, idx, ret, elitists, cfg, generation, args,
                                         fittest, gen0, elite0, picked, calls, last>>
     ELSE /\ population' = Replaced(newPopulation, elitists)
          /\ heap' = Collect(heap, Range(newPopulation) \cup Range(elitists))
          /\ pc' = "mutate"
          /\ idx' = 1
          /\ UNCHANGED <<newPopulation, ret, elitists, cfg, generation, args, fittest,
                         gen0, elite0, picked, calls, last>>

\* Neat.mutate: one round of its loop, then line 2046 adds the elitists
MutateGenome ==
  /\ UNCHANGED netvars
  /\ pc = "mutate"
  /\ IF idx <= Len(population)
     THEN \/ /\ idx' = idx + 1
             /\ UNCHANGED <<heap, population, pc, ret, elitists, newPopulation, cfg,
                            generation, args, fittest, gen0, elite0, picked, calls, last>>
          \/ \E current \in FFW :
               LET o == population[idx]
                   method == selectMutationMethod(heap[o].net, current, cfg.maxConns)
               IN  IF method = <<>>
                   THEN /\ idx' = idx + 1
                        /\ UNCHANGED <<heap, population, pc, ret, elitists, newPopulation,
                                       cfg, generation, args, fittest, gen0, elite0, picked, calls, last>>
                   ELSE \E mutateOutput \in MutateOutputOf(current),
                           keep_gates \in KeepGatesOf(current) :
                          \E r \in Mutate(heap[o].net, current, mutateOutput, keep_gates) :
                            IF r.err # "none"
                            THEN Thrown([heap EXCEPT ![o].net = Clear(r)], population)
                            ELSE /\ heap' = [heap EXCEPT ![o].net = r]
                                 /\ idx' = idx + 1
                                 /\ UNCHANGED <<population, pc, ret, elitists, newPopulation,
                                                cfg, generation, args, fittest, gen0,
                                                elite0, picked, calls, last>>
     ELSE /\ population' = population \o elitists
          /\ pc' = "evaluate2"
          /\ idx' = 0
          /\ UNCHANGED <<heap, ret, elitists, newPopulation, cfg, generation, args,
                         fittest, gen0, elite0, picked, calls, last>>

\* lines 2057-2058: a new Network object made from the JSON of genome o,
\* given o's score; it is the caller's, the Neat keeps no reference to it
CopyOf(h, o) ==
  [obj |-> Alloc(h), net |-> from_JSON(to_JSON(h[o].net)), score |-> Score(h, o)]

\* lines 2055-2065: sort, copy the fittest, reset the scores, generation++
Finish ==
  /\ UNCHANGED netvars
  /\ pc = "sort2"
  /\ \E sorted \in sort(heap, population) :
       /\ population' = sorted
       /\ fittest' = CopyOf(heap, sorted[1])
       /\ heap' = Collect([o \in Objects |-> [heap[o] EXCEPT !.score = <<>>]], Range(sorted))
  /\ generation' = generation + 1
  /\ pc' = "idle"
  /\ ret' = "returned"
  /\ elitists' = <<>>
  /\ newPopulation' = <<>>
  /\ UNCHANGED <<cfg, args, idx, gen0, elite0, picked, calls, last>>

\* ------------------------------------------------------------------ getParent
\* the scores the fitness function returns where their sign matters
SignedScores == (0 - MaxScore)..MaxScore

\* self.selection: the method object, and the size of a TOURNAMENT
Selections ==
  {[name |-> "POWER", size |-> 0], [name |-> "FITNESS_PROPORTIONATE", size |-> 0]}
    \cup {[name |-> "TOURNAMENT", size |-> size] : size \in 1..MaxSelectPop}

\* what a getParent() call comes to: the genome it returns (<<>> is
\* undefined), what it throws, and the population as it leaves it
Parent(pop, parent, err) == [population |-> pop, parent |-> parent, err |-> err]

\* case POWER
Power(h, pop) ==
  IF Len(pop) < 2
  THEN \* self.population[1] is undefined, reading its score throws
       {Parent(pop, <<>>, "TypeError")}
  ELSE {Parent(g.population, <<g.parent>>, "none") : g \in getParent(h, pop)}

\* value after the loop's round k: the scores so far, each raised by minimalFitness
RECURSIVE Value(_, _, _, _)
Value(h, pop, minimalFitness, k) ==
  IF k = 0 THEN 0
  ELSE Value(h, pop, minimalFitness, k - 1) + Score(h, pop[k])[1] + minimalFitness

\* case FITNESS_PROPORTIONATE.  The scores are integers, so the draws
\* Math.random() * totalFitness fall where their integer parts do
FitnessProportionate(h, pop) ==
  LET lowest == Min(0, CHOOSE x \in {Score(h, pop[k])[1] : k \in 1..Len(pop)} :
                         \A k \in 1..Len(pop) : x <= Score(h, pop[k])[1])
      minimalFitness == IF lowest < 0 THEN 0 - lowest ELSE lowest
      totalFitness == Value(h, pop, minimalFitness, Len(pop))
      draws == IF totalFitness = 0 THEN {0} ELSE 0..(totalFitness - 1)
      hit(random) == {k \in 1..Len(pop) : random < Value(h, pop, minimalFitness, k)}
  IN  {Parent(pop, <<pop[IF hit(random) = {} THEN any
                          ELSE CHOOSE k \in hit(random) : \A j \in hit(random) : k <= j]>>,
              "none") :
         random \in draws, any \in 1..Len(pop)}

\* case TOURNAMENT: `size` draws from the population, sorted by score; the
\* first i whose draw is below selection.probability, or the last, is returned
Tournament(h, pop, popsize, size) ==
  IF size > popsize THEN {Parent(pop, <<>>, "Error")}
  ELSE {Parent(pop, <<individuals[i]>>, "none") :
          individuals \in UNION {sort(h, [k \in 1..size |-> pop[draw[k]]]) :
                                   draw \in [1..size -> 1..Len(pop)]},
          i \in 1..size}

\* getParent() under self.selection
getParentBy(selection, h, pop, popsize) ==
  CASE selection.name = "POWER" -> Power(h, pop)
    [] selection.name = "FITNESS_PROPORTIONATE" -> FitnessProportionate(h, pop)
    [] selection.name = "TOURNAMENT" -> Tournament(h, pop, popsize, selection.size)

\* a Neat between two evolve() calls: the constructor leaves every slot with
\* the one object, an evolve() call leaves an object of its own in each slot
Populated(popsize, shared) ==
  [heap |-> [o \in Objects |->
               IF (shared /\ o = 1) \/ (~shared /\ o <= popsize)
               THEN Fresh(from_JSON(to_JSON(Template))) ELSE FreeObj],
   population |-> [k \in 1..popsize |-> IF shared THEN 1 ELSE k]]

\* the Neat's other fields as the constructor leaves them
Idle ==
  /\ generation = 0
  /\ pc = "idle"
  /\ args = [pick |-> FALSE, adjust |-> "none"]
  /\ elitists = <<>>
  /\ newPopulation = <<>>
  /\ idx = 0
  /\ ret = "none"
  /\ fittest = FreeObj
  /\ gen0 = 0
  /\ elite0 = <<>>
  /\ picked = {}
  /\ calls = 0
  /\ last = <<>>

\* what a call on the Neat's population leaves alone
selectframe == <<net, op, size0, mate, edits, cfg, generation, pc, args, elitists,
                 newPopulation, idx, ret, fittest, gen0, elite0, picked, calls, last, fit, loop>>

\* evaluate(), called from outside evolve()
EvaluateCall ==
  /\ res = NoRes
  /\ ~AllScored(heap, population)
  /\ \E scores \in [1..Len(population) -> SignedScores] :
       LET h == Assign(heap, population, scores, 1)
       IN  /\ heap' = h
           /\ population' \in sort(h, population)
  /\ UNCHANGED res
  /\ UNCHANGED selectframe

\* getParent() under a selection, after evaluate()
GetParentCall ==
  /\ res = NoRes
  /\ AllScored(heap, population)
  /\ \E selection \in Selections :
       \E g \in getParentBy(selection, heap, population, cfg.popsize) :
         /\ population' = g.population
         /\ res' = [name |-> "getParent", arg |-> selection, out |-> g]
  /\ UNCHANGED heap
  /\ UNCHANGED selectframe

\* ------------------------------------------------------------------ copies
\* clone(): new Network(self.input, self.output)
clone(n) == Network(n.input_size, n.output_size)

\* what a call on the network that returns a new one leaves alone
copyframe == <<net, op, size0, mate, edits, cfg, heap, population, generation, pc, args,
               elitists, newPopulation, idx, ret, fittest, gen0, elite0, picked, calls, last, fit, loop>>

\* mutate(method) on a network no copy was taken of yet
MutateCall ==
  /\ res = NoRes
  /\ \E method \in Methods : MutateAct(method, MaxEditNodes)

\* Network.from_JSON(net.to_JSON())
JSONCall ==
  /\ res = NoRes
  /\ res' = [name |-> "from_JSON", arg |-> to_JSON(Clear(net)),
             out |-> from_JSON(to_JSON(Clear(net)))]
  /\ UNCHANGED copyframe

\* net.clone()
CloneCall ==
  /\ res = NoRes
  /\ res' = [name |-> "clone", arg |-> <<>>, out |-> clone(Clear(net))]
  /\ UNCHANGED copyframe

\* Network.cross_over(net, copy, true) with a copy of net made through JSON,
\* the two with a score or with none
CrossOverCopyCall ==
  /\ res = NoRes
  /\ \E score1 \in {<<>>, <<MaxScore>>}, score2 \in {<<>>, <<MaxScore>>} :
       \E child \in cross_over(Clear(net), score1, from_JSON(to_JSON(Clear(net))), score2, TRUE) :
         res' = [name |-> "cross_over", arg |-> <<score1, score2>>, out |-> child]
  /\ UNCHANGED copyframe

\* ------------------------------------------------------------------ two parents
\* what mutate() and cross_over on the two parents leave alone
crossframe == <<size0, cfg, heap, population, generation, pc, args, elitists,
                newPopulation, idx, ret, fittest, gen0, elite0, picked, calls, last, fit, loop>>

\* the results mutate(method) can leave of n within the model's bounds
Mutated(n, method) ==
  {r \in UNION {Mutate(Clear(n), method, mutateOutput, keep_gates) :
                  mutateOutput \in MutateOutputOf(method), keep_gates \in KeepGatesOf(method)} :
     WithinBounds(r) /\ Len(r.nodes) <= MaxEditNodes}

\* net.mutate(method), before the second network is made
MutateParent ==
  /\ res = NoRes
  /\ ~mate.made
  /\ edits[1] < MaxEdits
  /\ \E method \in Methods : net' \in Mutated(net, method)
  /\ edits' = <<edits[1] + 1, edits[2]>>
  /\ UNCHANGED <<op, res, mate>>
  /\ UNCHANGED crossframe

\* mate = new Network(input_size, output_size)
NewMate ==
  /\ res = NoRes
  /\ ~mate.made
  /\ \E size \in Sizes :
       /\ size[1] + size[2] <= MaxEditNodes
       /\ mate' = [made |-> TRUE, net |-> Network(size[1], size[2])]
  /\ UNCHANGED <<net, op, res, edits>>
  /\ UNCHANGED crossframe

\* mate.mutate(method)
MutateMate ==
  /\ res = NoRes
  /\ mate.made
  /\ edits[2] < MaxEdits
  /\ \E method \in Methods : mate' \in {[mate EXCEPT !.net = r] : r \in Mutated(mate.net, method)}
  /\ edits' = <<edits[1], edits[2] + 1>>
  /\ UNCHANGED <<net, op, res>>
  /\ UNCHANGED crossframe

\* the scores of the two parents a cross_over is called with: none, and
\* each of the two the greater
ParentScores == {<<<<>>, <<>>>>, <<<<MaxScore>>, <<0>>>>, <<<<0>>, <<MaxScore>>>>}

\* Network.cross_over(net, mate, equal)
CrossOverCall ==
  /\ res = NoRes
  /\ mate.made
  /\ \E equal \in BOOLEAN, scores \in ParentScores :
       \E child \in cross_over(Clear(net), scores[1], Clear(mate.net), scores[2], equal) :
         res' = [name |-> "cross_over",
                 arg |-> [equal |-> equal, score1 |-> scores[1], score2 |-> scores[2]],
                 out |-> child]
  /\ UNCHANGED <<net, op, mate, edits>>
  /\ UNCHANGED crossframe

\* ------------------------------------------------------------------ merge
\* a faulty redirect: every input node of network2 onto network1's last node
MirrorLast(len, index) == len

\* network1.nodes[network1.nodes.length - 1 - index], in 1-based positions
Mirror(len, index) == len + 1 - index

\* a node of network2 in the merged network: the copies made through JSON
\* number their nodes from 1 each, the objects of network2 are other objects
\* than network1's
Moved(network1, id) == Len(network1.nodes) + id

\* Network.merge(network1, network2): the two are copied through JSON; each
\* connection of the second copy that leaves an input node is redirected, the
\* input nodes of the second are spliced out and the output nodes of the first
\* retyped; the connections and the nodes are concatenated. gates, selfconns
\* and the recorded sizes of the first copy are returned as they are.
merge(a, b) ==
  LET network1 == from_JSON(to_JSON(a))
      network2 == from_JSON(to_JSON(b))
      len1 == Len(network1.nodes)
      Redirected(conn) ==
        [from |-> IF TypeOf(network2, conn.from) = "input"
                  THEN network1.nodes[Mirror(len1, IndexOf(network2, conn.from))].id
                  ELSE Moved(network1, conn.from),
         to |-> Moved(network1, conn.to),
         gater |-> IF conn.gater = NoNode THEN NoNode ELSE Moved(network1, conn.gater)]
      kept == SubSeq(network2.nodes, network2.input_size + 1, Len(network2.nodes))
  IN  IF network1.output_size # network2.input_size
      THEN Throw(network1, "SizeMismatch")
      ELSE [network1 EXCEPT
              !.connections = @ \o [j \in 1..Len(network2.connections) |->
                                      Redirected(network2.connections[j])],
              !.nodes = [k \in 1..len1 |->
                           IF k > len1 - network1.output_size
                           THEN MkNode(@[k].id, "hidden") ELSE @[k]]
                        \o [k \in 1..Len(kept) |->
                              MkNode(Moved(network1, kept[k].id), kept[k].type)]]

\* Network.merge(net, mate)
MergeCall ==
  /\ res = NoRes
  /\ mate.made
  /\ res' = [name |-> "merge", arg |-> <<>>, out |-> merge(Clear(net), Clear(mate.net))]
  /\ UNCHANGED <<net, op, mate, edits>>
  /\ UNCHANGED crossframe

\* ------------------------------------------------------------------ calls
\* an argument that is given holds its value, one that is left out is <<>>
NotGiven == <<>>

SizeArgs == {NotGiven} \cup {<<k>> : k \in (0 - 1)..MaxSize}

\* new Network(input_size, output_size): the only test is for an argument
\* that is left out; the loops over the nodes and over the pairs of an
\* input and an output node run no round for a size that is not positive
New(input_size, output_size) ==
  IF input_size = NotGiven \/ output_size = NotGiven
  THEN Throw(Network(0, 0), "NoSize")
  ELSE IF input_size[1] > 0 /\ output_size[1] > 0
  THEN Network(input_size[1], output_size[1])
  ELSE [input_size |-> input_size[1],
        output_size |-> output_size[1],
        nodes |-> [k \in 1..(input_size[1] + output_size[1]) |->
                     MkNode(k, IF k <= input_size[1] THEN "input" ELSE "output")],
        connections |-> <<>>,
        gates |-> <<>>,
        selfconns |-> <<>>,
        err |-> "none"]

\* new Network(input_size, output_size)
NewCall ==
  /\ res = NoRes
  /\ \E input_size \in SizeArgs, output_size \in SizeArgs :
       res' = [name |-> "new", arg |-> <<input_size, output_size>>,
               out |-> New(input_size, output_size)]
  /\ UNCHANGED copyframe

\* the arrays activate() is called with, up to one value longer than the
\* largest input size
Inputs == UNION {[1..len -> 1..2] : len \in 0..(MaxSize + 1)}

\* an input node takes the value it is handed, which is input[node_index],
\* and that is no value when the array is too short
NodeActivate(input, node_index) ==
  IF node_index <= Len(input) THEN <<input[node_index]>> ELSE NotGiven

\* activate(input): every node is activated in the order of the node list,
\* the input nodes with input[node_index]; the activations of the output
\* nodes are returned. The array's length is not looked at.
activate(n, input) ==
  [err |-> "none",
   activated |-> NodeIds(n),
   activation |-> [k \in {i \in 1..Len(n.nodes) : n.nodes[i].type = "input"} |->
                     NodeActivate(input, k)],
   output |-> Cardinality({i \in 1..Len(n.nodes) : n.nodes[i].type = "output"})]

\* net.activate(input)
ActivateCall ==
  /\ res = NoRes
  /\ \E input \in Inputs :
       res' = [name |-> "activate", arg |-> input, out |-> activate(Clear(net), input)]
  /\ UNCHANGED copyframe

\* ------------------------------------------------------------------ workers
\* the numbers of threads the multi-threaded fitness function is made for
Threads == 2..MaxThreads

\* the populations it is called with: the objects of the slots, which
\* Array.fill makes one object for several slots
Populations == UNION {[1..len -> 1..len] : len \in 1..MaxQueue}

\* the promise as its executor finds it: queue = population.slice(), done = 0,
\* no worker at work; busy is the genome a worker evaluates (0: none), handed
\* and by count the calls worker.evaluate(genome) and their workers, scored
\* are the genomes whose score is assigned, resolved counts the resolve() calls
NewPromise(threads, queue) ==
  [called |-> TRUE,
   threads |-> threads,
   population |-> queue,
   queue |-> queue,
   done |-> 0,
   resolved |-> 0,
   busy |-> [w \in 1..threads |-> 0],
   handed |-> [g \in Range(queue) |-> 0],
   by |-> [g \in Range(queue) |-> {}],
   scored |-> {}]

\* a faulty count: done is compared before it is incremented
startWorkerPostIncrement(st, worker) ==
  IF st.queue = <<>>
  THEN [st EXCEPT !.done = @ + 1,
                  !.resolved = IF st.done = st.threads THEN @ + 1 ELSE @,
                  !.busy[worker] = 0]
  ELSE [st EXCEPT !.queue = Tail(@),
                  !.busy[worker] = Head(st.queue),
                  !.handed[Head(st.queue)] = @ + 1,
                  !.by[Head(st.queue)] = @ \cup {worker}]

\* startWorker(worker): with the queue empty the worker is counted done and
\* the promise resolved at the threads-th count; else the worker is handed
\* the head of the queue
startWorker(st, worker) ==
  IF st.queue = <<>>
  THEN [st EXCEPT !.done = @ + 1,
                  !.resolved = IF st.done + 1 = st.threads THEN @ + 1 ELSE @,
                  !.busy[worker] = 0]
  ELSE [st EXCEPT !.queue = Tail(@),
                  !.busy[worker] = Head(st.queue),
                  !.handed[Head(st.queue)] = @ + 1,
                  !.by[Head(st.queue)] = @ \cup {worker}]

\* for (i = 0; i < workers.length; i++) startWorker(workers[i])
RECURSIVE StartWorkers(_, _)
StartWorkers(st, worker) ==
  IF worker > st.threads THEN st
  ELSE StartWorkers(startWorker(st, worker), worker + 1)

\* what a step of the fitness function leaves alone
fitframe == <<net, op, size0, res, mate, edits, loop, cfg, heap, population, generation,
              pc, args, elitists, newPopulation, idx, ret, fittest, gen0, elite0,
              picked, calls, last>>

\* options.fitness(set, population): the promise's executor runs to its end
FitnessCall ==
  /\ fit = NoFit
  /\ \E threads \in Threads, queue \in Populations :
       fit' = StartWorkers(NewPromise(threads, queue), 1)
  /\ UNCHANGED fitframe

\* worker.evaluate(genome) completes: the score is assigned and the worker
\* started again
Complete(worker) ==
  /\ fit.called
  /\ worker \in 1..fit.threads
  /\ fit.busy[worker] # 0
  /\ fit' = startWorker([fit EXCEPT !.scored = @ \cup {fit.busy[worker]}], worker)
  /\ UNCHANGED fitframe

Completion == \E worker \in 1..MaxThreads : Complete(worker)

\* ------------------------------------------------------------------ filterGenome
\* what pickGenome returns for a slot: true, false, or a value that is no
\* boolean; what adjustGenome returns: the genome it got, a Network it
\* built, or a value that is no Network
PickReturns == {"true", "false", "other"}

AdjustReturns == {"same", "fresh", "other"}

\* filterGenome's loop from slot i on; st.filtered says of each slot whose
\* genome it holds (by = "kept": the population's), adjust is NotGiven or
\* holds what adjustGenome returns for each slot. Without adjustGenome the
\* replacement is Network.from_JSON(template.to_JSON), the method itself and
\* not the JSON it returns, whose input and output are undefined.
RECURSIVE FilterSlots(_, _, _, _)
FilterSlots(st, picks, adjust, i) ==
  IF i > Len(st.filtered) \/ st.err # "none" THEN st
  ELSE IF picks[i] = "other" THEN [st EXCEPT !.err = "PickNotBoolean"]
  ELSE IF picks[i] = "false" THEN FilterSlots(st, picks, adjust, i + 1)
  ELSE IF adjust = NotGiven
       THEN FilterSlots([st EXCEPT !.err = New(NotGiven, NotGiven).err,
                                   !.filtered[i].by = "template"],
                        picks, adjust, i + 1)
  ELSE IF adjust[1][i] = "other" THEN [st EXCEPT !.err = "AdjustNotNetwork"]
  ELSE FilterSlots([st EXCEPT !.filtered[i].by = adjust[1][i]], picks, adjust, i + 1)

\* self.filterGenome(population, template, pickGenome, adjustGenome)
filterGenome(pop, picks, adjust) ==
  FilterSlots([err |-> "none",
               filtered |-> [k \in 1..Len(pop) |-> [obj |-> pop[k], by |-> "kept"]]],
              picks, adjust, 1)

\* neat.filterGenome(neat.population, neat.template, pickGenome, adjustGenome)
\* on the population as the constructor left it
FilterCall ==
  /\ res = NoRes
  /\ ~AllScored(heap, population)
  /\ \E picks \in [1..Len(population) -> PickReturns],
        adjust \in {NotGiven} \cup {<<f>> : f \in [1..Len(population) -> AdjustReturns]} :
       res' = [name |-> "filterGenome", arg |-> [picks |-> picks, adjust |-> adjust],
               out |-> filterGenome(population, picks, adjust)]
  /\ UNCHANGED <<heap, population>>
  /\ UNCHANGED selectframe

\* ------------------------------------------------------------------ datasets
\* a sample by the lengths of its input and of its output array
Samples == [input : 1..MaxSize, output : 1..MaxSize]

DataSets == UNION {[1..len -> Samples] : len \in 1..MaxSamples}

\* the test train() and evolve() start with: the first sample alone is
\* compared with the sizes of the network
FirstSampleFits(n, set) ==
  set[1].input = n.input_size /\ set[1].output = n.output_size

\* _train_one_epoch from sample i on: activate(input), which does not look at
\* the length, then propagate(..., target), which throws on a target that
\* has not output_size values; activated counts the activate() calls made
RECURSIVE TrainOneEpoch(_, _, _)
TrainOneEpoch(n, set, i) ==
  IF i > Len(set) THEN [err |-> "none", activated |-> Len(set)]
  ELSE IF set[i].output # n.output_size THEN [err |-> "TargetLength", activated |-> i]
  ELSE TrainOneEpoch(n, set, i + 1)

\* train(data): the first epoch
train(n, data) ==
  IF ~FirstSampleFits(n, data) THEN [err |-> "SizeMismatch", activated |-> 0]
  ELSE TrainOneEpoch(n, data, 1)

\* evolve(set) with one thread: each genome is tested on every sample of the
\* set, by activate(input) and the cost of its output
evolve(n, set) ==
  IF ~FirstSampleFits(n, set) THEN [err |-> "SizeMismatch", activated |-> 0]
  ELSE [err |-> "none", activated |-> Len(set)]

\* net.train(data)
TrainCall ==
  /\ res = NoRes
  /\ \E data \in DataSets :
       res' = [name |-> "train", arg |-> data, out |-> train(Clear(net), data)]
  /\ UNCHANGED copyframe

\* net.evolve(set)
EvolveSetCall ==
  /\ res = NoRes
  /\ \E set \in DataSets :
       res' = [name |-> "evolve", arg |-> set, out |-> evolve(Clear(net), set)]
  /\ UNCHANGED copyframe

\* ------------------------------------------------------------------ evolve loop

\* errors are counted in hundredths: 5 is the 0.05 of the source
DefaultIterations == 1000
DefaultTargetError == 5
\* target_error = -1, "run until iterations"
UntilIterations == -100

Errors == 0..MaxError
IterationOptions == {NotGiven} \cup {<<k>> : k \in 0..MaxIterations}
ErrorOptions == {NotGiven} \cup {<<e>> : e \in Errors}

\* the options after "Read the options": iterations and target_error, where <<>> is
\* undefined
ReadOptions(iterations, error) ==
  IF iterations = NotGiven /\ error = NotGiven
    THEN [iterations |-> <<DefaultIterations>>, target_error |-> <<DefaultTargetError>>]
    ELSE IF iterations # NotGiven /\ iterations[1] # 0
      THEN [iterations |-> iterations, target_error |-> <<UntilIterations>>]
      ELSE IF error # NotGiven /\ error[1] # 0
        THEN [iterations |-> <<0>>, target_error |-> error]
        ELSE [iterations |-> iterations, target_error |-> NotGiven]

\* the while condition, with loop.error the error of the last fittest genome (the
\* source's -error; <<>> before the first generation, when error is -Infinity)
LoopCondition(l) ==
  /\ l.target_error # NotGiven
  /\ IF l.error = <<>> THEN TRUE ELSE l.error[1] > l.target_error[1]
  /\ l.iterations # NotGiven
  /\ IF l.iterations[1] = 0 THEN TRUE ELSE l.generation < l.iterations[1]

loopframe == <<net, op, size0, res, mate, edits, fit, cfg, heap, population, generation,
               pc, args, elitists, newPopulation, idx, ret, fittest, gen0, elite0,
               picked, calls, last>>

\* network.evolve(set, {iterations, error}) up to its first await
EvolveOptionsCall ==
  /\ loop = NoLoop
  /\ \E iterations \in IterationOptions, error \in ErrorOptions :
       LET o == ReadOptions(iterations, error)
       IN loop' = [called |-> TRUE, options |-> [iterations |-> iterations, error |-> error],
                   iterations |-> o.iterations, target_error |-> o.target_error,
                   generation |-> 0, error |-> <<>>, returned |-> FALSE]
  /\ UNCHANGED loopframe

\* one turn of the while loop: neat.evolve() returns the fittest genome of the next
\* generation, whose error is any of Errors
Generation ==
  /\ loop.called
  /\ ~loop.returned
  /\ LoopCondition(loop)
  /\ loop.generation < MaxGenerations
  /\ \E e \in Errors :
       loop' = [loop EXCEPT !.generation = @ + 1, !.error = <<e>>]
  /\ UNCHANGED loopframe

\* the loop is left and evolve returns {error, iterations, time}
EvolveReturn ==
  /\ loop.called
  /\ ~loop.returned
  /\ ~LoopCondition(loop)
  /\ loop' = [loop EXCEPT !.returned = TRUE]
  /\ UNCHANGED loopframe

\* ------------------------------------------------------------------ specifications
\* the specifications of a network leave the Neat as constructed with
\* popsize 1, those of a Neat leave the network as constructed
InitNet ==
  /\ NetStart
  /\ NeatStart
  /\ cfg = [popsize |-> 1, elitism |-> 0, provenance |-> 0, equal |-> TRUE,
            maxConns |-> MaxConns, fitness |-> "any"]

\* the networks the structural edits start from
InitEdit == InitNet /\ Len(net.nodes) <= MaxEditNodes

InitNeat ==
  /\ NeatStart
  /\ net = Template
  /\ size0 = <<NeatInput, NeatOutput>>
  /\ op = Call("new", FALSE)
  /\ NoCalls

\* a Neat with elitists and a fitness function of the genome alone
InitElite ==
  /\ NeatStartOf(MaxConns, Evaluators)
  /\ cfg.elitism >= 1
  /\ net = Template
  /\ size0 = <<NeatInput, NeatOutput>>
  /\ op = Call("new", FALSE)
  /\ NoCalls

\* a Neat with a maxConns that the template fills
InitCap ==
  /\ NeatStartWith(TightConns)
  /\ net = Template
  /\ size0 = <<NeatInput, NeatOutput>>
  /\ op = Call("new", FALSE)
  /\ NoCalls

NextMutate == \E method \in Methods : MutateAct(method, MaxNodes)

NextEdit ==
  \/ \E method \in Methods : MutateAct(method, MaxEditNodes)
  \/ ConnectAct
  \/ DisconnectAct
  \/ GateAct
  \/ UngateAct
  \/ RemoveAct

NextNeat ==
  \/ EvolveCall
  \/ Evaluate
  \/ Filter
  \/ Select
  \/ Breed
  \/ MutateGenome
  \/ Finish

\* a Neat whose population is evaluated and asked for a parent
InitSelect ==
  /\ NetStart
  /\ Idle
  /\ \E popsize \in 1..MaxSelectPop, shared \in BOOLEAN :
       /\ cfg = [popsize |-> popsize, elitism |-> 0, provenance |-> 0, equal |-> TRUE,
                 maxConns |-> MaxConns, fitness |-> "any"]
       /\ heap = Populated(popsize, shared).heap
       /\ population = Populated(popsize, shared).population
  /\ net = Template

NextSelect ==
  \/ EvaluateCall
  \/ GetParentCall
  \/ FilterCall

NextCross ==
  \/ MutateParent
  \/ NewMate
  \/ MutateMate
  \/ CrossOverCall
  \/ MergeCall

NextCopy ==
  \/ MutateCall
  \/ JSONCall
  \/ CloneCall
  \/ CrossOverCopyCall

NextCall ==
  \/ MutateCall
  \/ NewCall
  \/ ActivateCall
  \/ TrainCall
  \/ EvolveSetCall

\* a Neat by itself, for the calls that go by no network
InitWorkers ==
  /\ InitNeat
  /\ cfg.popsize = 1
  /\ cfg.elitism = 0
  /\ cfg.provenance = 0

NextWorkers ==
  \/ FitnessCall
  \/ Completion

NextLoop ==
  \/ EvolveOptionsCall
  \/ Generation
  \/ EvolveReturn

\* mutate(method) with the operators of methods.mutation.FFW alone
NextForward == \E method \in FFW : MutateAct(method, MaxNodes)

InitWide == InitNet /\ Len(net.nodes) = 2

\* operators that add and remove nodes and ordinary connections
Rewiring ==
  {"ADD_NODE", "SUB_NODE", "ADD_CONN", "SUB_CONN", "ADD_BACK_CONN"}

NextWide == \E method \in Rewiring : MutateWideAct(method)

\* ------------------------------------------------------------------ properties
EliteObjects == {elite0[k].obj : k \in 1..Len(elite0)}

\* the elitists evolve() selected are in the population as they were selected
ElitesKept ==
  \A k \in 1..Len(elite0) :
    /\ \E j \in 1..Len(population) : population[j] = elite0[k].obj
    /\ heap[elite0[k].obj].net = elite0[k].net

\* C1: under mutate() alone, the first input_size nodes of a network are its
\* input nodes, the last output_size its output nodes, no node between them
\* is an input or an output node, and the sizes are those it was made with
C1_Partition ==
  LET len == Len(net.nodes)
  IN  /\ <<net.input_size, net.output_size>> = size0
      /\ net.input_size + net.output_size <= len
      /\ \A k \in 1..len :
           IF k <= net.input_size THEN net.nodes[k].type = "input"
           ELSE IF k > len - net.output_size THEN net.nodes[k].type = "output"
           ELSE net.nodes[k].type \notin {"input", "output"}

\* ADD_NODE has split a connection into the last of two output nodes
C1_Witness ==
  /\ op.name = "ADD_NODE"
  /\ net.err = "none"
  /\ net.output_size = 2
  /\ \E k \in 1..Len(net.connections) :
       /\ net.connections[k].to = net.nodes[Len(net.nodes)].id
       /\ TypeOf(net, net.connections[k].from) = "hidden"

\* C2: under mutate() alone, no two elements of `connections` have the same
\* ordered (from, to) pair, and no two elements of `selfconns` the same node
C2_NoDuplicate ==
  /\ \A a, b \in 1..Len(net.connections) :
       Ref(net.connections[a]) = Ref(net.connections[b]) => a = b
  /\ \A a, b \in 1..Len(net.selfconns) :
       Ref(net.selfconns[a]) = Ref(net.selfconns[b]) => a = b

\* SUB_NODE has removed a node of a network that keeps a self-connection
\* and as many ordinary connections as the model allows
C2_Witness ==
  /\ op.name = "SUB_NODE"
  /\ net.err = "none"
  /\ Len(net.selfconns) = 1
  /\ Len(net.connections) = MaxConns

\* C3: under connect, disconnect, gate, ungate, remove and mutate, a
\* connection of the network is in `gates` if and only if its gater is set,
\* and no connection is in `gates` twice
C3_GatesIffGated ==
  /\ \A k \in 1..Len(AllConns(net)) :
       (AllConns(net)[k].gater # NoNode) <=>
         (\E g \in 1..Len(net.gates) : net.gates[g] = Ref(AllConns(net)[k]))
  /\ \A a, b \in 1..Len(net.gates) : net.gates[a] = net.gates[b] => a = b

\* remove() has taken the hidden node out and a connection is gated
C3_Witness ==
  /\ op.name = "remove"
  /\ net.err = "none"
  /\ Len(net.gates) = 1
  /\ HiddenNodes(net) = {}

C5_GateMoves ==
  [][\A k \in 1..Len(net.connections) :
       LET c == net.connections[k]
           node == NewNodeId(net)
           g1 == GaterOf(net', <<c.from, node>>)
           g2 == GaterOf(net', <<node, c.to>>)
       IN  (/\ op'.name = "ADD_NODE"
            /\ net'.err = "none"
            /\ c.gater # NoNode
            /\ ~Live(net', Ref(c)))
           => /\ Len(net'.gates) = Len(net.gates)
              /\ (g1 = c.gater) # (g2 = c.gater)]_vars

\* C6: mutate(method) on a network where the method has no candidate raises
\* no error and leaves nodes, connections, selfconns and gates as they were
C6_NoCandidateNoOp ==
  [][op'.nocand =>
       /\ net'.err = "none"
       /\ net'.nodes = net.nodes
       /\ net'.connections = net.connections
       /\ net'.selfconns = net.selfconns
       /\ net'.gates = net.gates]_vars

\* C7: an evolve() call that returns leaves popsize genomes in the
\* population and generation one above what it was
C7_PopsizeKept ==
  (pc = "idle" /\ ret = "returned") =>
    (Len(population) = cfg.popsize /\ generation = gen0 + 1)

\* a second evolve() has returned for a Neat that breeds one genome beside
\* a provenance copy
C7_Witness ==
  /\ pc = "idle"
  /\ ret = "returned"
  /\ calls = 2
  /\ generation = 2
  /\ cfg.popsize = 2
  /\ cfg.elitism = 0
  /\ cfg.provenance = 1

\* C8, as stated: the elitists of an evolve() call are in the population,
\* structurally unchanged, when the call returns
C8_ElitesSurvive == (pc = "idle" /\ ret = "returned") => ElitesKept

\* C8, amended: they are when pickGenome picks none of them in the filter
\* that follows the re-evaluation
C8_ElitesSurviveUnpicked ==
  (pc = "idle" /\ ret = "returned" /\ picked \cap EliteObjects = {}) => ElitesKept

\* evolve() has returned, its last filter replaced a genome and picked no
\* elitist
C8_Witness ==
  /\ pc = "idle"
  /\ ret = "returned"
  /\ args.adjust = "fresh"
  /\ Len(elite0) >= 1
  /\ picked # {}
  /\ picked \cap EliteObjects = {}

\* C9: between evolve() calls no two slots of the population hold the same
\* Network object
C9_DistinctSlots ==
  pc = "idle" =>
    \A a, b \in 1..Len(population) : population[a] = population[b] => a = b

\* C10: every genome of the population has a score when evolve() sorts the
\* population and while it draws parents from it
C10_ScoredWhenSorted ==
  pc \in {"sort", "breed", "sort2"} => AllScored(heap, population)

\* C11: under each selection (POWER, FITNESS_PROPORTIONATE, TOURNAMENT with a
\* size from 1 to popsize), whatever the draws and the scores, getParent()
\* returns a genome of the population: it does not throw and does not
\* return undefined
C11_ParentInPopulation ==
  (/\ res.name = "getParent"
   /\ res.arg.name = "TOURNAMENT" => res.arg.size \in 1..cfg.popsize) =>
    (/\ res.out.err = "none"
     /\ res.out.parent # <<>>
     /\ res.out.parent[1] \in Range(population))

\* C12: when evolve() returns, the genome it returns is a copy of the first
\* genome of the sorted population and no element of the population, its
\* score is the greatest score of the re-evaluated population, and every
\* genome of the population is left without a score
C12_ReturnsFittestCopy ==
  [][(pc = "sort2" /\ pc' = "idle" /\ ret' = "returned") =>
       (/\ fittest'.obj \notin Range(population')
        /\ fittest'.net = from_JSON(to_JSON(heap[population'[1]].net))
        /\ fittest'.score # <<>>
        /\ \A k \in 1..Len(population) :
             /\ Score(heap, population[k]) # <<>>
             /\ Score(heap, population[k])[1] <= fittest'.score[1]
        /\ \A k \in 1..Len(population') : Score(heap', population'[k]) = <<>>)]_vars

\* the connections of n in `conns`, each by (from-index, to-index, gater-index)
Genes(n, conns) == {Gene(n, conns[k]) : k \in 1..Len(conns)}

\* the gated connections n.gates refers to, by index
GateGenes(n) == {Gene(n, Lookup(n, n.gates[k])) : k \in 1..Len(n.gates)}

\* a is a network with as many nodes as b and the same ordinary
\* connections, self-connections and gates by index
SameStructure(a, b) ==
  /\ a.err = "none"
  /\ Len(a.nodes) = Len(b.nodes)
  /\ Len(a.connections) = Len(b.connections)
  /\ Genes(a, a.connections) = Genes(b, b.connections)
  /\ Genes(a, a.selfconns) = Genes(b, b.selfconns)
  /\ GateGenes(a) = GateGenes(b)

EqualSizes(a, b) == a.input_size = b.input_size /\ a.output_size = b.output_size

\* the index pairs (from, to) that n connects, self-connections included
Pairs(n) == {<<g.from, g.to>> : g \in Genes(n, AllConns(n))}

C15_OffspringInBounds ==
  (res.name = "cross_over" /\ EqualSizes(net, mate.net)) =>
    LET child == res.out
        conns == AllConns(child)
    IN  /\ child.err = "none"
        /\ \A k \in 1..Len(conns) :
             /\ conns[k].from \in NodeIds(child)
             /\ conns[k].to \in NodeIds(child)
             /\ conns[k].gater # NoNode => conns[k].gater \in NodeIds(child)
        /\ \A k \in 1..Len(child.gates) :
             /\ Live(child, child.gates[k])
             /\ GaterOf(child, child.gates[k]) \in NodeIds(child)
        /\ Pairs(child) \subseteq
             {p \in Pairs(net) \cup Pairs(mate.net) :
                p[1] \in 1..Len(child.nodes) /\ p[2] \in 1..Len(child.nodes)}

C15_Witness ==
  /\ res.name = "cross_over"
  /\ EqualSizes(net, mate.net)
  /\ \E g \in Genes(net, AllConns(net)) \cup Genes(mate.net, AllConns(mate.net)) :
       g.from > Len(res.out.nodes) \/ g.to > Len(res.out.nodes)
  /\ \E g \in Genes(net, AllConns(net)) \cup Genes(mate.net, AllConns(mate.net)) :
       /\ g.from <= Len(res.out.nodes)
       /\ g.to <= Len(res.out.nodes)
       /\ g.gater > Len(res.out.nodes)
       /\ <<g.from, g.to>> \in Pairs(res.out)
  /\ Len(res.out.gates) > 0

\* C16: cross_over of two parents whose input sizes or output sizes differ
\* fails with an error, and leaves the nodes, connections, selfconns and
\* gates of both parents as they were
C16_SizeMismatchFails ==
  [][(res'.name = "cross_over" /\ res.name = "none" /\ ~EqualSizes(net, mate.net)) =>
       (/\ res'.out.err # "none"
        /\ net' = net
        /\ mate' = mate)]_vars

C16_Witness ==
  /\ res.name = "cross_over"
  /\ net.input_size = mate.net.input_size
  /\ net.output_size # mate.net.output_size
  /\ res.out.err # "none"
  /\ edits = <<MaxEdits, MaxEdits>>
  /\ Len(net.gates) > 0
  /\ Len(mate.net.selfconns) > 0

\* C17: evolve() called with elitism + provenance > popsize fails with an
\* error before it evaluates anything: the population, the scores of its
\* genomes and generation are as they were
C17_EvolveRefused ==
  [][(pc = "idle" /\ calls' = calls + 1 /\ cfg.elitism + cfg.provenance > cfg.popsize) =>
       (/\ ret' = "threw"
        /\ pc' = "idle"
        /\ population' = population
        /\ heap' = heap
        /\ generation' = generation)]_vars

C17_Witness ==
  /\ cfg.elitism + cfg.provenance > cfg.popsize
  /\ cfg.elitism <= cfg.popsize
  /\ calls = MaxCalls
  /\ pc = "idle"
  /\ ret = "threw"

C19_CloneIdentical ==
  res.name = "clone" => SameStructure(res.out, net)

\* C20: a network as Network(i, o) constructs it has i + o nodes, the i input
\* nodes first, and i * o ordinary connections, one from each input node to
\* each output node, no self-connection and no gate
C20_FreshNetwork ==
  op.name = "new" =>
    LET i == size0[1]
        o == size0[2]
    IN  /\ net.err = "none"
        /\ Len(net.nodes) = i + o
        /\ \A k \in 1..(i + o) : net.nodes[k].type = IF k <= i THEN "input" ELSE "output"
        /\ Len(net.connections) = i * o
        /\ \A a \in 1..i, b \in (i + 1)..(i + o) :
             Cardinality({k \in 1..Len(net.connections) :
                            Gene(net, net.connections[k])
                              = [from |-> a, to |-> b, gater |-> NoNode]}) = 1
        /\ net.selfconns = <<>>
        /\ net.gates = <<>>

C20_Witness ==
  /\ op.name = "new"
  /\ size0 = <<MaxSize, MaxSize>>
  /\ Len(net.connections) = MaxSize * MaxSize

\* C21: new Network(input_size, output_size) fails with an error when a size
\* is not given and also when a size is zero or negative; no network is
\* produced then.
C21_InvalidSizesFail ==
  (res.name = "new" /\ \E k \in 1..2 : res.arg[k] = NotGiven \/ res.arg[k][1] <= 0)
    => res.out.err # "none"

\* C22: activate(input) fails with an error whenever input.length differs
\* from input_size, and then no node's activation or state is changed.
C22_WrongLengthFails ==
  (res.name = "activate" /\ Len(res.arg) # net.input_size)
    => res.out.err # "none" /\ res.out.activated = {}

\* C23: remove(node) with a node that is not in the network, gate(node,
\* connection) with a node that is not in the network, and ungate(connection)
\* with a connection that is not gated each raise an error and leave nodes,
\* connections, selfconns and gates unchanged.
Refused(n, r) == r.err # "none" /\ Clear(r) = n

Strangers(n) == {id \in 1..(NewNodeId(n) + 1) : id \notin NodeIds(n)}

C23_BadArgumentsRefused ==
  LET n == Clear(net)
      refs == {Ref(AllConns(n)[k]) : k \in 1..Len(AllConns(n))}
  IN  /\ \A node \in Strangers(n), keep_gates \in BOOLEAN :
           \A r \in Remove(n, node, keep_gates) : Refused(n, r)
      /\ \A node \in Strangers(n), ref \in refs : Refused(n, Gate(n, node, ref))
      /\ \A ref \in refs \cup {<<NewNodeId(n), NewNodeId(n)>>} :
           (~Live(n, ref) \/ GaterOf(n, ref) = NoNode) => Refused(n, Ungate(n, ref))

\* an ungate() of an ungated connection was refused on a network that gates
\* another one
C23_Witness ==
  /\ op.name = "ungate"
  /\ net.err = "NotGated"
  /\ Len(net.gates) > 0
  /\ Strangers(net) # {}

\* C24: merge(net1, net2) fails when net1's output size differs from net2's
\* input size; otherwise it returns a network of len(net1) + len(net2) -
\* net2.input nodes in which each input node of net2 is replaced by a former
\* output node of net1 of its own (one to one), the former output nodes of
\* net1 are hidden nodes, and net1 and net2 are left as they were.
FormerOutputs(n) == (Len(n.nodes) - n.output_size + 1)..Len(n.nodes)

Injective(f) == \A x, y \in DOMAIN f : f[x] = f[y] => x = y

\* out carries the connections of n2 after those of n1, with the input node
\* at position k of n2 replaced by out's node at position f[k]
Replaces(out, n1, n2, f) ==
  \A j \in 1..Len(n2.connections) :
    LET c == n2.connections[j]
        made == out.connections[Len(n1.connections) + j]
        Place(id) == IF TypeOf(n2, id) = "input" THEN f[IndexOf(n2, id)]
                     ELSE Len(n1.nodes) + IndexOf(n2, id) - n2.input_size
    IN  /\ made.from = out.nodes[Place(c.from)].id
        /\ made.to = out.nodes[Place(c.to)].id

Merged(out, n1, n2) ==
  IF n1.output_size # n2.input_size THEN out.err # "none"
  ELSE /\ out.err = "none"
       /\ Len(out.nodes) = Len(n1.nodes) + Len(n2.nodes) - n2.input_size
       /\ Len(out.connections) = Len(n1.connections) + Len(n2.connections)
       /\ \A k \in FormerOutputs(n1) : out.nodes[k].type = "hidden"
       /\ \E f \in [1..n2.input_size -> FormerOutputs(n1)] :
            Injective(f) /\ Replaces(out, n1, n2, f)

C24_MergeJoins ==
  [][(res.name = "none" /\ res'.name = "merge")
       => /\ Merged(res'.out, Clear(net), Clear(mate.net))
          /\ net' = net
          /\ mate' = mate]_vars

\* two networks were merged over two nodes, each of which has a connection
C24_Witness ==
  /\ res.name = "merge"
  /\ res.out.err = "none"
  /\ mate.net.input_size = 2
  /\ \A k \in 1..2 : \E j \in 1..Len(mate.net.connections) :
       mate.net.connections[j].from = mate.net.nodes[k].id
  /\ Len(res.out.nodes) = 4

\* C25: the network merge(net1, net2) returns is partitioned by its own
\* recorded sizes: its last output_size nodes are exactly its output nodes (so
\* output_size is net2's output size) and its first input_size nodes are
\* exactly its input nodes.
C25_MergedPartition ==
  (res.name = "merge" /\ res.out.err = "none")
    => LET out == res.out
           len == Len(out.nodes)
       IN  /\ out.output_size = mate.net.output_size
           /\ \A k \in 1..len :
                /\ (k <= out.input_size) <=> (out.nodes[k].type = "input")
                /\ (k > len - out.output_size) <=> (out.nodes[k].type = "output")

\* C26: in the network merge(net1, net2) returns, a connection is in `gates`
\* if and only if its gater is set, and every self-connection of a node of
\* net2 is in `selfconns`.
C26_MergedGatesAndSelfs ==
  (res.name = "merge" /\ res.out.err = "none")
    => LET out == res.out
           n2 == mate.net
           Place(id) == Len(net.nodes) + IndexOf(n2, id) - n2.input_size
       IN  /\ \A k \in 1..Len(AllConns(out)) :
                (AllConns(out)[k].gater # NoNode) <=>
                  (\E g \in 1..Len(out.gates) : out.gates[g] = Ref(AllConns(out)[k]))
           /\ \A k \in 1..Len(n2.nodes) :
                HasSelf(n2, n2.nodes[k].id) =>
                  \E j \in 1..Len(out.selfconns) :
                    /\ out.selfconns[j].from = out.nodes[Place(n2.nodes[k].id)].id
                    /\ out.selfconns[j].to = out.selfconns[j].from

\* C27: possible(ADD_SELF_CONN) returns exactly the non-input nodes whose
\* self-connection weight is zero; after mutate(ADD_SELF_CONN) on a network
\* with at least one such node selfconns is longer by exactly 1, the chosen
\* node has a nonzero self-weight, and connections, nodes and gates are
\* unchanged.
Unlooped(n) ==
  {n.nodes[k].id : k \in {j \in 1..Len(n.nodes) :
      /\ n.nodes[j].type # "input"
      /\ \A s \in 1..Len(n.selfconns) : n.selfconns[s].from # n.nodes[j].id}}

C27_AddSelfConn ==
  [][op'.name = "ADD_SELF_CONN"
       => /\ Possible(Clear(net), "ADD_SELF_CONN", FALSE).candidates = Unlooped(net)
          /\ Unlooped(net) # {}
               => /\ net'.err = "none"
                  /\ Len(net'.selfconns) = Len(net.selfconns) + 1
                  /\ SubSeq(net'.selfconns, 1, Len(net.selfconns)) = net.selfconns
                  /\ \E node \in Unlooped(net) :
                       /\ Ref(net'.selfconns[Len(net'.selfconns)]) = <<node, node>>
                       /\ node \notin Unlooped(net')
                  /\ net'.connections = net.connections
                  /\ net'.nodes = net.nodes
                  /\ net'.gates = net.gates]_vars

\* a hidden node of a network with a gated connection was given its
\* self-connection
C27_Witness ==
  /\ op.name = "ADD_SELF_CONN"
  /\ ~op.nocand
  /\ Len(net.gates) = 1
  /\ \E s \in 1..Len(net.selfconns) : TypeOf(net, net.selfconns[s].from) = "hidden"

\* C28: SWAP_NODES is possible whenever the network has at least 2 eligible
\* nodes (the nodes that are not input nodes, and not output nodes unless
\* method.mutateOutput is set); mutate(SWAP_NODES) then swaps bias and squash
\* between two of them and leaves the nodes' order, connections, selfconns
\* and gates as they were.
C28_SwapPossible ==
  \A mutateOutput \in BOOLEAN :
    Cardinality(Eligible(net, mutateOutput)) >= 2
      => /\ Possible(Clear(net), "SWAP_NODES", mutateOutput).ok
         /\ Mutate(Clear(net), "SWAP_NODES", mutateOutput, TRUE) = {Clear(net)}

\* the genomes of the Neat: those of the population and of the one in the making
Genomes == Range(population) \cup Range(newPopulation) \cup Range(elitists)

\* C29: with the cap maxNodes = M and a template of at most M nodes, no
\* genome of the population has more than M nodes after any number of
\* evolve() generations.
C29_NodeCap ==
  \A o \in Genomes : Len(heap[o].net.nodes) <= MaxEditNodes

\* the last evolve() has returned a population with a genome at the cap
C29_Witness ==
  /\ ret = "returned"
  /\ generation = MaxCalls
  /\ Len(Template.nodes) < MaxEditNodes
  /\ \E k \in 1..Len(population) : Len(heap[population[k]].net.nodes) = MaxEditNodes

\* C30: with the cap maxConns = C and a template of at most C ordinary
\* connections, no genome of the population has more than C ordinary
\* connections after any number of evolve() generations, whichever of the
\* allowed operators, ADD_NODE and SUB_NODE included, the mutations apply.
C30_ConnCap ==
  Len(Template.connections) <= cfg.maxConns
    => \A o \in Genomes : Len(heap[o].net.connections) <= cfg.maxConns

\* C31: in the multi-threaded fitness function, whatever the number of
\* workers and the order in which they complete, each genome of the
\* population is handed to exactly one worker exactly once, and the promise
\* resolves only after every genome of the population has its score.
C31_HandedOnce ==
  fit.called
    => /\ \A g \in Range(fit.population) :
            fit.handed[g] <= 1 /\ Cardinality(fit.by[g]) <= 1
       /\ fit.resolved > 0
            => \A g \in Range(fit.population) : fit.handed[g] = 1 /\ g \in fit.scored

\* C32: in the multi-threaded fitness function, if every worker.evaluate()
\* call completes the promise is resolved in the end, and it is resolved
\* exactly once: done reaches the number of threads once, also with fewer
\* genomes than workers.
C32_ResolvedOnce ==
  /\ fit.called ~> (fit.called /\ fit.resolved = 1)
  /\ [](fit.called => /\ fit.resolved <= 1
                      /\ fit.done <= fit.threads
                      /\ fit.resolved = 1 <=> fit.done = fit.threads)

\* the promise of a call with fewer genomes than workers is resolved, after
\* a worker evaluated a genome
C32_Witness ==
  /\ fit.called
  /\ fit.resolved = 1
  /\ Len(fit.population) < fit.threads
  /\ fit.scored # {}

\* C33: filterGenome fails with an error when pickGenome returns a value
\* that is no boolean for some genome, and when adjustGenome is given and
\* returns a value that is no Network; otherwise it returns a population of
\* the same length in which only the genomes pickGenome picked are replaced.
C33_FilterContract ==
  res.name = "filterGenome"
    => LET picks == res.arg.picks
           adjust == res.arg.adjust
           slots == 1..Len(population)
           bad == \/ \E k \in slots : picks[k] = "other"
                  \/ /\ adjust # NotGiven
                     /\ \E k \in slots : picks[k] = "true" /\ adjust[1][k] = "other"
       IN  IF bad THEN res.out.err # "none"
           ELSE /\ res.out.err = "none"
                /\ Len(res.out.filtered) = Len(population)
                /\ \A k \in slots :
                     /\ res.out.filtered[k].obj = population[k]
                     /\ (res.out.filtered[k].by # "kept") <=> (picks[k] = "true")

\* C34: when evolve() is called with a pickGenome and no adjustGenome, every
\* genome pickGenome returns true for is replaced in the population by a
\* copy of the template network, and the call goes on without an error.
C34_PickedReplacedByTemplate ==
  [][(pc \in {"filter", "filter2"} /\ args.pick /\ args.adjust = "none")
       => /\ ret' = "running"
          /\ pc' \in {"sort", "sort2"}
          /\ Len(population') = Len(population)
          /\ \A k \in 1..Len(population) :
               IF population[k] \in picked'
               THEN /\ population'[k] # population[k]
                    /\ heap'[population'[k]].net = from_JSON(to_JSON(Template))
               ELSE population'[k] = population[k]]_vars

\* C35: train(data) and evolve(set) fail with an error when any sample of the
\* dataset has an input length other than input_size or a target length
\* other than output_size, and the error is raised before any weight, bias
\* or node state of the network is changed.
C35_DatasetChecked ==
  (/\ res.name \in {"train", "evolve"}
   /\ \E k \in 1..Len(res.arg) :
        res.arg[k].input # net.input_size \/ res.arg[k].output # net.output_size)
    => res.out.err # "none" /\ res.out.activated = 0

\* C36: Network.evolve called with a target error options.error = e runs no
\* generation after one whose fittest genome has an error <= e, whether or not
\* options.iterations is given as well, and with options.iterations = n it never
\* runs more than n generations
C36_StopsAtTarget ==
  /\ [][(/\ loop.called
         /\ loop.options.error # NotGiven
         /\ loop.error # <<>>
         /\ loop.error[1] <= loop.options.error[1])
          => loop'.generation = loop.generation]_vars
  /\ [](loop.called /\ loop.options.iterations # NotGiven
          => loop.generation <= loop.options.iterations[1])

\* C37: after remove(node) on a hidden node, every node a that had a
\* connection into the removed node has a direct connection to every node b
\* the removed node had a connection to (a self-connection when a = b), and no
\* pair (a, b) that was connected once before is connected twice.
Times(list, ref) == Cardinality({k \in 1..Len(list) : Ref(list[k]) = ref})

Bridged(before, after, node) ==
  /\ \A i \in 1..Len(before.connections), o \in 1..Len(before.connections) :
       LET a == before.connections[i].from
           b == before.connections[o].to
       IN  (before.connections[i].to = node /\ before.connections[o].from = node)
             => Times(IF a = b THEN after.selfconns ELSE after.connections, <<a, b>>) = 1
  /\ \A a \in NodeIds(after), b \in NodeIds(after) :
       Times(AllConns(before), <<a, b>>) <= 1 => Times(AllConns(after), <<a, b>>) <= 1

C37_RemoveBridges ==
  [][\A node \in HiddenNodes(net) :
       (op'.name = "remove" /\ net'.err = "none" /\ node \notin NodeIds(net'))
         => Bridged(net, net', node)]_vars

\* a hidden node was removed, which leaves the input node connected to the
\* output node and the output node to itself
C37_Witness ==
  /\ op.name = "remove"
  /\ net.err = "none"
  /\ Len(net.nodes) = 2
  /\ Len(net.connections) = 1
  /\ Ref(net.connections[1]) = <<net.nodes[1].id, net.nodes[2].id>>
  /\ Len(net.selfconns) = 1
  /\ Ref(net.selfconns[1]) = <<net.nodes[2].id, net.nodes[2].id>>

\* C38: from a freshly constructed network on, under the non-recurrent mutation
\* operators alone, every ordinary connection goes from a node to a node of
\* strictly higher index in `nodes`, none ends at an input node or starts at
\* an output node, and there is no self-connection.
C38_FeedForward ==
  /\ net.selfconns = <<>>
  /\ \A k \in 1..Len(net.connections) :
       LET c == net.connections[k]
       IN  /\ IndexOf(net, c.from) >= 1
           /\ IndexOf(net, c.from) < IndexOf(net, c.to)
           /\ TypeOf(net, c.to) # "input"
           /\ TypeOf(net, c.from) # "output"

\* ADD_CONN has connected the first input node to the last output node past a
\* hidden node that ADD_NODE had put between them
C38_Witness ==
  /\ op.name = "ADD_CONN"
  /\ ~op.nocand
  /\ HiddenNodes(net) # {}
  /\ \E k \in 1..Len(net.connections) :
       Ref(net.connections[k]) = <<net.nodes[1].id, net.nodes[Len(net.nodes)].id>>
  /\ \E k \in 1..Len(net.connections) : TypeOf(net, net.connections[k].to) = "hidden"

\* C39: from a freshly constructed network on, after any sequence of mutate()
\* calls, every hidden node has at least one incoming and at least one
\* outgoing ordinary connection, and the network has at least one ordinary
\* connection.
C39_NoStrandedNode ==
  /\ Len(net.connections) >= 1
  /\ \A node \in HiddenNodes(net) :
       /\ Len(ConnsIn(net, node)) >= 1
       /\ Len(ConnsOut(net, node)) >= 1

\* C40: with elitism >= 1, no filter callbacks and a fitness function whose
\* score depends on the genome alone, the score of the genome evolve() returns
\* is never less than the score of the genome the evolve() call before returned.
C40_ScoreNeverDecreases ==
  (/\ pc = "idle"
   /\ ret = "returned"
   /\ cfg.elitism >= 1
   /\ cfg.fitness \in Evaluators
   /\ ~args.pick
   /\ last # <<>>)
    => /\ fittest.score # <<>>
       /\ fittest.score[1] >= last[1]

\* a second evolve() has returned a genome of a greater score than the first
C40_Witness ==
  /\ pc = "idle"
  /\ ret = "returned"
  /\ calls = 2
  /\ cfg.elitism >= 1
  /\ cfg.fitness \in Evaluators
  /\ ~args.pick
  /\ last = <<0>>
  /\ fittest.score = <<1>>

\* ------------------------------------------------------------------ behaviours
\* a fresh network under mutate() alone
SpecMutate == InitNet /\ [][NextMutate]_vars

\* a fresh network under mutate() and the structural edits
Spec == InitEdit /\ [][NextEdit]_vars

\* a Neat under evolve()
SpecNeat == InitNeat /\ [][NextNeat]_vars

\* a Neat under evaluate() and getParent()
SpecSelect == InitSelect /\ [][NextSelect]_vars

\* a network under mutate(), then copied
SpecCopy == InitEdit /\ [][NextCopy]_vars

\* two networks under mutate(), then crossed over
SpecCross == InitEdit /\ [][NextCross]_vars

\* a network under mutate(), then a constructor call or activate()
SpecCall == InitEdit /\ [][NextCall]_vars

\* a Neat whose template has maxConns connections, under evolve()
SpecCap == InitCap /\ [][NextNeat]_vars

\* one call of the multi-threaded fitness function
SpecWorkers == InitWorkers /\ [][NextWorkers]_vars

\* the same, where every worker.evaluate() call completes
SpecWorkersFair ==
  InitWorkers /\ [][NextWorkers]_vars /\ \A worker \in 1..MaxThreads : WF_vars(Complete(worker))


\* Network.evolve read through its options and its generations
SpecLoop == InitWorkers /\ [][NextLoop]_vars


\* a fresh network under the feed-forward mutation operators
SpecForward == InitNet /\ [][NextForward]_vars


\* a fresh one-input, one-output network under mutate(), to MaxWideConns connections
SpecWide == InitWide /\ [][NextWide]_vars


\* a Neat with elitists under evolve(), its fitness function one of Evaluators
SpecElite == InitElite /\ [][NextNeat]_vars

====
